---- MODULE Spec2Model ----
(***************************************************************************)
(* Model of the galaxy-brain ticket triage pipeline:                       *)
(*   UrgencyClassifier.classify_urgency   (packages/nlp_utils extractors)  *)
(*   SentimentAnalyzer.analyze_sentiment  (packages/nlp_utils extractors)  *)
(*   Ticket validation                    (packages/nlp_utils models)      *)
(*   TriageAgent.process_email            (agent.py)                       *)
(*   BatchProcessor.process_email_batch   (apps/batch_processor)           *)
(*   BatchProcessor.load_emails_from_file (apps/batch_processor)           *)
(*   create_demo_ticket, the command line (test_demo.py, triage.py)        *)
(*   POST /triage, GET /health            (apps/api_service api_server)    *)
(*                                                                         *)
(* Strings the code manipulates character by character (email text,       *)
(* keywords, entity text, customer_id, product, summary) are sequences of  *)
(* one-character strings.  Enumerated labels are TLA+ strings.             *)
(* Confidences are integers in thousandths (0.6 is 600, 1.0 is 1000).      *)
(***************************************************************************)
EXTENDS Integers, Sequences, FiniteSets, TLC

VARIABLES
    \* --- classify_urgency applied as a pure function
    cu_text, cu_sentiment, cu_result,
    \* --- one execution of TriageAgent.process_email
    pc, email_text, doc, entities, product_mentions, sentiment_result,
    urgency_result, llm_outcome, returned, raised, gather_error, path,
    \* --- one execution of BatchProcessor.process_email_batch
    emails, task_pc, call_outcome, task_result, semaphore, waiters, progress,
    gathered, batch_return, batch_raised, out_of_order,
    \* --- one run of the command line tool (triage.py main)
    cli_pc, cli_demo, cli_source, cli_content, cli_email_text, cli_agent,
    cli_llm_calls, cli_signals, cli_ticket, cli_exit,
    \* --- the HTTP service (api_server.py)
    api_pc, api_agent_ok, api_request, api_call, api_response, api_handled,
    \* --- load_emails_from_file (processor.py)
    load_pc, file_kind, file_content, loaded, load_raised,
    \* --- one run of the development setup script (dev_setup.py main)
    ds_pc, ds_verify_env, ds_results, ds_missing, ds_verified, ds_exit

cuVars    == <<cu_text, cu_sentiment, cu_result>>
agentVars == <<pc, email_text, doc, entities, product_mentions, sentiment_result,
               urgency_result, llm_outcome, returned, raised,
               gather_error, path>>
batchVars == <<emails, task_pc, call_outcome, task_result, semaphore, waiters,
               progress, gathered, batch_return, batch_raised, out_of_order>>
cliVars   == <<cli_pc, cli_demo, cli_source, cli_content, cli_email_text,
               cli_agent, cli_llm_calls, cli_signals, cli_ticket, cli_exit>>
apiVars   == <<api_pc, api_agent_ok, api_request, api_call, api_response,
               api_handled>>
loadVars  == <<load_pc, file_kind, file_content, loaded, load_raised>>
setupVars == <<ds_pc, ds_verify_env, ds_results, ds_missing, ds_verified, ds_exit>>
vars      == <<cuVars, agentVars, batchVars, cliVars, apiVars, loadVars, setupVars>>

\* what the actions of one part leave alone
notCuVars    == <<agentVars, batchVars, cliVars, apiVars, loadVars, setupVars>>
notAgentVars == <<cuVars, batchVars, cliVars, apiVars, loadVars, setupVars>>
notBatchVars == <<cuVars, agentVars, cliVars, apiVars, loadVars, setupVars>>
notCliVars   == <<cuVars, agentVars, batchVars, apiVars, loadVars, setupVars>>
notApiVars   == <<cuVars, agentVars, batchVars, cliVars, loadVars, setupVars>>
notLoadVars  == <<cuVars, agentVars, batchVars, cliVars, apiVars, setupVars>>
notSetupVars == <<cuVars, agentVars, batchVars, cliVars, apiVars, loadVars>>

(***************************************************************************)
(* Bounds                                                                  *)
(***************************************************************************)
\* longest generated text, in vocabulary words
MaxWords == 2
\* largest batch handed to process_email_batch
MaxEmails == 6
\* requests the HTTP service handles in one run
MaxRequests == 2
\* longest file content handed to load_emails_from_file
MaxContent == 6

(***************************************************************************)
(* Optional values                                                         *)
(***************************************************************************)
None == <<>>
Some(x) == <<x>>

(***************************************************************************)
(* Character strings                                                       *)
(***************************************************************************)
UpperChars == <<"A","B","C","D","E","F","G","H","I","J","K","L","M","N","O","P","Q","R",
      "S","T","U","V","W","X","Y","Z">>
LowerChars == <<"a","b","c","d","e","f","g","h","i","j","k","l","m","n","o","p","q","r",
      "s","t","u","v","w","x","y","z">>

\* str.lower() on one character
LowerChar(c) ==
    IF \E i \in 1..Len(UpperChars) : UpperChars[i] = c
    THEN LowerChars[CHOOSE i \in 1..Len(UpperChars) : UpperChars[i] = c]
    ELSE c

\* str.lower()
Lower(s) == [i \in 1..Len(s) |-> LowerChar(s[i])]

\* the Python test `k in t` on strings
IsSubstring(k, t) ==
    \E i \in 0..(Len(t) - Len(k)) : \A j \in 1..Len(k) : t[i + j] = k[j]

Min(a, b) == IF a <= b THEN a ELSE b

(***************************************************************************)
(* UrgencyClassifier                                                       *)
(***************************************************************************)
high_urgency_keywords == <<
    <<"u","r","g","e","n","t">>, <<"e","m","e","r","g","e","n","c","y">>, <<"a","s","a","p">>, <<"i","m","m","e","d","i","a","t","e","l","y">>, <<"c","r","i","t","i","c","a","l">>,
    <<"b","r","o","k","e","n">>, <<"d","o","w","n">>, <<"n","o","t"," ","w","o","r","k","i","n","g">>, <<"e","r","r","o","r">>, <<"b","u","g">>, <<"c","r","a","s","h">>,
    <<"a","n","g","r","y">>, <<"f","r","u","s","t","r","a","t","e","d">>, <<"d","i","s","a","p","p","o","i","n","t","e","d">>, <<"u","n","a","c","c","e","p","t","a","b","l","e">> >>

medium_urgency_keywords == <<
    <<"s","o","o","n">>, <<"i","s","s","u","e">>, <<"p","r","o","b","l","e","m">>, <<"q","u","e","s","t","i","o","n">>, <<"h","e","l","p">>,
    <<"s","u","p","p","o","r","t">>, <<"a","s","s","i","s","t","a","n","c","e">>, <<"c","o","n","f","u","s","e","d">>, <<"u","n","c","l","e","a","r">> >>

\* KeywordScore adding text_lower.count(keyword) for every keyword
KeywordScoreOccurrences(keywords, text_lower) ==
    LET Count(k) ==
            Cardinality({p \in 0..(Len(text_lower) - Len(k)) :
                            \A j \in 1..Len(k) : text_lower[p + j] = k[j]})
        Sum[n \in 0..Len(keywords)] ==
            IF n = 0 THEN 0 ELSE Sum[n - 1] + Count(keywords[n])
    IN  Sum[Len(keywords)]

\* sum(1 for keyword in keywords if keyword in text_lower)
KeywordScore(keywords, text_lower) ==
    Cardinality({i \in 1..Len(keywords) : IsSubstring(keywords[i], text_lower)})

\* AdjustHighScore with the positive branch lost
AdjustHighScoreIgnoresPositive(high_score, sentiment) ==
    IF sentiment = "negative" THEN high_score + 2 ELSE high_score

\* AdjustHighScore with the negative adjustment off by one
AdjustHighScoreNegativeThree(high_score, sentiment) ==
    IF sentiment = "negative" THEN high_score + 3
    ELSE IF sentiment = "positive" THEN high_score - 1
    ELSE high_score

\* AdjustHighScore with the two branches exchanged
AdjustHighScoreSwapped(high_score, sentiment) ==
    IF sentiment = "positive" THEN high_score + 2
    ELSE IF sentiment = "negative" THEN high_score - 1
    ELSE high_score

\* the sentiment adjustment of high_score
AdjustHighScore(high_score, sentiment) ==
    IF sentiment = "negative" THEN high_score + 2
    ELSE IF sentiment = "positive" THEN high_score - 1
    ELSE high_score

\* DetermineUrgency without the caps on the confidence
DetermineUrgencyUncapped(high_score, medium_score) ==
    IF high_score >= 3
    THEN [urgency |-> "high", confidence |-> 500 + high_score * 100]
    ELSE IF high_score >= 1 \/ medium_score >= 2
    THEN [urgency |-> "medium",
          confidence |-> 400 + (high_score + medium_score) * 100]
    ELSE [urgency |-> "low", confidence |-> 600]

\* DetermineUrgency with one medium keyword enough for medium
DetermineUrgencyOneMedium(high_score, medium_score) ==
    IF high_score >= 3
    THEN [urgency |-> "high",
          confidence |-> Min(900, 500 + high_score * 100)]
    ELSE IF high_score >= 1 \/ medium_score >= 1
    THEN [urgency |-> "medium",
          confidence |-> Min(800, 400 + (high_score + medium_score) * 100)]
    ELSE [urgency |-> "low", confidence |-> 600]

\* the urgency decision on the adjusted high_score and medium_score
DetermineUrgency(high_score, medium_score) ==
    IF high_score >= 3
    THEN [urgency |-> "high",
          confidence |-> Min(900, 500 + high_score * 100)]
    ELSE IF high_score >= 1 \/ medium_score >= 2
    THEN [urgency |-> "medium",
          confidence |-> Min(800, 400 + (high_score + medium_score) * 100)]
    ELSE [urgency |-> "low", confidence |-> 600]

classify_urgency(text, sentiment) ==
    LET text_lower   == Lower(text)
        high_score   == AdjustHighScore(
                            KeywordScore(high_urgency_keywords, text_lower),
                            sentiment)
        medium_score == KeywordScore(medium_urgency_keywords, text_lower)
        decision     == DetermineUrgency(high_score, medium_score)
    IN  [urgency |-> decision.urgency,
         confidence |-> decision.confidence,
         keyword_matches |-> [high |-> high_score, medium |-> medium_score]]

(***************************************************************************)
(* Input texts                                                             *)
(***************************************************************************)
Vocabulary == {
    <<"U","R","G","E","N","T">>, <<"d","o","w","n","l","o","a","d">>, <<"c","r","a","s","h">>, <<"q","u","e","s","t","i","o","n">>, <<"H","e","l","p">>, <<"h","i">> }

RECURSIVE WordTexts(_)
\* texts of at most n vocabulary words joined by single spaces
WordTexts(n) ==
    IF n = 0 THEN {<<>>}
    ELSE LET shorter == WordTexts(n - 1)
         IN  shorter \cup Vocabulary
             \cup {t \o <<" ">> \o w : t \in shorter \ {<<>>}, w \in Vocabulary}

QuickQuestionText == <<"H","i",","," ","j","u","s","t"," ","a"," ","q","u","i","c","k"," ","q",
      "u","e","s","t","i","o","n"," ","a","b","o","u","t"," ","b","i","l",
      "l","i","n","g",".">>
SystemDownText == <<"U","R","G","E","N","T",":"," ","s","y","s","t","e","m"," ","i","s"," ",
      "d","o","w","n",","," ","p","l","e","a","s","e"," ","h","e","l","p",
      " ","i","m","m","e","d","i","a","t","e","l","y","!","!">>
ManyMediumText == <<"C","o","n","f","u","s","e","d",":"," ","u","n","c","l","e","a","r"," ",
      "i","s","s","u","e",","," ","n","e","e","d"," ","h","e","l","p"," ",
      "a","n","d"," ","s","u","p","p","o","r","t"," ","s","o","o","n">>

SampleTexts == {QuickQuestionText, SystemDownText, ManyMediumText}

Texts == WordTexts(MaxWords) \cup SampleTexts

Sentiments == {"positive", "neutral", "negative"}
Urgencies == {"low", "medium", "high"}

(***************************************************************************)
(* EntityExtractor: the spaCy document of a text                           *)
(***************************************************************************)
\* names the NER model can recognise, with the label it gives them
KnownEntities == {
    [text |-> <<"M","o","n","d","a","y">>, label |-> "DATE"],
    [text |-> <<"j","o","h","n"," ","s","m","i","t","h">>, label |-> "PERSON"],
    [text |-> <<"A","c","m","e"," ","C","o","r","p">>, label |-> "ORG"] }

\* nouns extract_product_mentions looks for
ProductNouns == { <<"w","i","d","g","e","t">>, <<"a","p","p">>, <<"s","o","f","t","w","a","r","e">>, <<"s","e","r","v","i","c","e">> }

IsLetter(c) ==
    \E i \in 1..Len(UpperChars) : UpperChars[i] = c \/ LowerChars[i] = c

\* text[start:end] in Python's 0-based, end-exclusive positions
Slice(text, start, end) == SubSeq(text, start + 1, end)

\* every occurrence of a known name: the spans the NER model can report
Mentions(text) ==
    UNION {{[text |-> k.text, label |-> k.label, start |-> s,
             end |-> s + Len(k.text), confidence |-> 1000] :
                s \in {p \in 0..Len(text) :
                        /\ p + Len(k.text) <= Len(text)
                        /\ Slice(text, p, p + Len(k.text)) = k.text}} :
           k \in KnownEntities}

\* every token (maximal run of letters) whose lower-cased text is a product noun
NounTokens(text) ==
    UNION {{[text |-> Slice(text, s, e), start |-> s] :
                e \in {q \in (s + 1)..Len(text) :
                        /\ \A i \in (s + 1)..q : IsLetter(text[i])
                        /\ (s = 0 \/ ~IsLetter(text[s]))
                        /\ (q = Len(text) \/ ~IsLetter(text[q + 1]))
                        /\ Lower(Slice(text, s, q)) \in ProductNouns}} :
           s \in 0..Len(text)}

RECURSIVE SortByStart(_)
\* spans in document order
SortByStart(S) ==
    IF S = {} THEN <<>>
    ELSE LET first == CHOOSE x \in S : \A y \in S : x.start <= y.start
         IN  <<first>> \o SortByStart(S \ {first})

\* the documents self.nlp(text) can produce: the model recognises some of the
\* mentions and tags some of the product-noun tokens as NOUN
Docs(text) ==
    {[ents |-> SortByStart(E), nouns |-> SortByStart(N)] :
        E \in SUBSET Mentions(text), N \in SUBSET NounTokens(text)}

\* EntityExtractor.extract_entities on the document
extract_entities(d) == d.ents

Range(s) == {s[i] : i \in 1..Len(s)}

\* list(set(products)): the distinct products in an arbitrary order
ListsOfSet(S) ==
    {l \in [1..Cardinality(S) -> S] : Range(l) = S}

\* EntityExtractor.extract_product_mentions on the document: the possible
\* return values
extract_product_mentions(d) ==
    LET products ==
            {d.ents[i].text : i \in {j \in 1..Len(d.ents) :
                d.ents[j].label \in {"PRODUCT", "ORG", "PERSON"}}}
            \cup {d.nouns[i].text : i \in 1..Len(d.nouns)}
    IN  ListsOfSet(products)

(***************************************************************************)
(* SentimentAnalyzer                                                       *)
(***************************************************************************)
\* what the transformers pipeline can return for one text: a score per label.
\* Scores are even thousandths.
NegativeScores ==
    <<[label |-> "NEGATIVE", score |-> 998], [label |-> "POSITIVE", score |-> 2]>>
PositiveScores ==
    <<[label |-> "NEGATIVE", score |-> 120], [label |-> "POSITIVE", score |-> 880]>>
TiedScores ==
    <<[label |-> "NEGATIVE", score |-> 500], [label |-> "POSITIVE", score |-> 500]>>
OtherLabelScores ==
    <<[label |-> "LABEL_0", score |-> 300], [label |-> "LABEL_1", score |-> 700]>>

PipelineOutputs == {NegativeScores, PositiveScores, TiedScores, OtherLabelScores}

\* sentiment_map.get(label, "neutral")
sentiment_map(label) ==
    IF label = "POSITIVE" THEN "positive"
    ELSE IF label = "NEGATIVE" THEN "negative"
    ELSE "neutral"

\* max(results, key=score): the first element with the largest score
MaxScore(results) ==
    results[CHOOSE i \in 1..Len(results) :
                /\ \A j \in 1..Len(results) : results[j].score <= results[i].score
                /\ \A j \in 1..(i - 1) : results[j].score < results[i].score]

analyze_sentiment(results) ==
    LET max_score == MaxScore(results)
    IN  [sentiment |-> sentiment_map(max_score.label),
         confidence |-> max_score.score]

(***************************************************************************)
(* Ticket and Entity validation                                            *)
(***************************************************************************)
\* Entity: confidence is constrained to [0, 1]
ValidEntity(e) == e.confidence >= 0 /\ e.confidence <= 1000

\* ValidTicket with sentiment declared as a plain str
ValidTicketAnySentiment(t) ==
    /\ t.urgency \in {"low", "medium", "high"}
    /\ \A i \in 1..Len(t.entities) : ValidEntity(t.entities[i])
    /\ t.confidence_score >= 0
    /\ t.confidence_score <= 1000

\* Ticket: the two Literal fields and the bounded confidence_score
ValidTicket(t) ==
    /\ t.sentiment \in {"positive", "neutral", "negative"}
    /\ t.urgency \in {"low", "medium", "high"}
    /\ \A i \in 1..Len(t.entities) : ValidEntity(t.entities[i])
    /\ t.confidence_score >= 0
    /\ t.confidence_score <= 1000

\* the constructor with no validation at all
TicketUnvalidated(fields) == Some(fields)

\* Ticket(**fields): the object, or nothing when pydantic raises ValidationError
Ticket(fields) == IF ValidTicket(fields) THEN Some(fields) ELSE None

\* keyword arguments of a Ticket call that differ in the constrained fields
TicketFields(customer_id, sentiment, urgency, confidence_score) ==
    [customer_id |-> customer_id, product |-> <<>>, sentiment |-> sentiment,
     urgency |-> urgency, entities |-> <<>>, summary |-> <<>>,
     next_action |-> "", confidence_score |-> confidence_score]

\* the values the models demo feeds the constructor, and their neighbours
TicketCandidates ==
    {TicketFields(c, s, u, k) :
        c \in {<<>>, <<"C","_","1">>},
        s \in {"positive", "neutral", "negative", "invalid_sentiment"},
        u \in {"low", "medium", "high", "super_mega_urgent"},
        k \in {0 - 1, 0, 500, 1000, 1001, 1500}}

(***************************************************************************)
(* TriageAgent._create_fallback_ticket                                     *)
(***************************************************************************)
UpperChar(c) ==
    IF \E i \in 1..Len(LowerChars) : LowerChars[i] = c
    THEN UpperChars[CHOOSE i \in 1..Len(LowerChars) : LowerChars[i] = c]
    ELSE c

\* text.replace(' ', '_').upper()
CustomerKey(text) ==
    [i \in 1..Len(text) |-> UpperChar(IF text[i] = " " THEN "_" ELSE text[i])]

\* FallbackCustomerId without the break: the last PERSON or ORG wins
FallbackCustomerIdLastHit(ents) ==
    LET hits == {i \in 1..Len(ents) : ents[i].label \in {"PERSON", "ORG"}}
    IN  IF hits = {} THEN <<"U","N","K","N","O","W","N">>
        ELSE LET last == CHOOSE i \in hits : \A j \in hits : i >= j
             IN  <<"C","_">> \o CustomerKey(ents[last].text)

\* the loop over entities that stops at the first PERSON or ORG
FallbackCustomerId(ents) ==
    LET hits == {i \in 1..Len(ents) : ents[i].label \in {"PERSON", "ORG"}}
    IN  IF hits = {} THEN <<"U","N","K","N","O","W","N">>
        ELSE LET first == CHOOSE i \in hits : \A j \in hits : i <= j
             IN  <<"C","_">> \o CustomerKey(ents[first].text)

\* FallbackProduct taking the last mention
FallbackProductLast(mentions) ==
    IF Len(mentions) > 0 THEN mentions[Len(mentions)] ELSE <<"G","e","n","e","r","a","l"," ","S","u","p","p","o","r","t">>

FallbackProduct(mentions) ==
    IF Len(mentions) > 0 THEN mentions[1] ELSE <<"G","e","n","e","r","a","l"," ","S","u","p","p","o","r","t">>

SummaryLimit == 100

\* FallbackSummary truncating from the limit on
FallbackSummaryOffByOne(text) ==
    IF Len(text) >= SummaryLimit
    THEN SubSeq(text, 1, SummaryLimit) \o <<".",".",".">>
    ELSE text

FallbackSummary(text) ==
    IF Len(text) > SummaryLimit
    THEN SubSeq(text, 1, SummaryLimit) \o <<".",".",".">>
    ELSE text

\* FallbackNextAction escalating medium urgency as well
FallbackNextActionMediumEscalates(urgency) ==
    IF urgency \in {"high", "medium"} THEN "escalate_to_tier_2"
    ELSE "assign_to_support"

FallbackNextAction(urgency) ==
    IF urgency = "high" THEN "escalate_to_tier_2" ELSE "assign_to_support"

\* (sentiment confidence + urgency confidence) / 2
FusedConfidence(sent, urg) == (sent.confidence + urg.confidence) \div 2

\* create_fallback_ticket keeping only the entity the customer_id came from
create_fallback_ticketCustomerEntityOnly(text, ents, mentions, sent, urg) ==
    LET Test(e) == e.label \in {"PERSON", "ORG"}
    IN  [customer_id |-> FallbackCustomerId(ents),
         product |-> FallbackProduct(mentions),
         sentiment |-> sent.sentiment,
         urgency |-> urg.urgency,
         entities |-> SelectSeq(ents, Test),
         summary |-> FallbackSummary(text),
         next_action |-> FallbackNextAction(urg.urgency),
         confidence_score |-> FusedConfidence(sent, urg)]

\* the fields _create_fallback_ticket hands to the Ticket constructor
create_fallback_ticket(text, ents, mentions, sent, urg) ==
    [customer_id |-> FallbackCustomerId(ents),
     product |-> FallbackProduct(mentions),
     sentiment |-> sent.sentiment,
     urgency |-> urg.urgency,
     entities |-> ents,
     summary |-> FallbackSummary(text),
     next_action |-> FallbackNextAction(urg.urgency),
     confidence_score |-> FusedConfidence(sent, urg)]

(***************************************************************************)
(* The LLM-backed agent                                                    *)
(***************************************************************************)
\* what the LLM can answer: field values as the model produced them;
\* entities is None when the answer carries a null there
EscalatingAnswer ==
    [customer_id |-> <<"C","_","L","L","M">>, product |-> <<"W","i","d","g","e","t">>,
     sentiment |-> "negative", urgency |-> "high", entities |-> Some(<<>>),
     summary |-> <<"s","u","m","m","a","r","y"," ","b","y"," ","L","L","M">>, next_action |-> "technical_support",
     confidence_score |-> 990]
ResolvedAnswer ==
    [customer_id |-> <<"C","_","L","L","M">>, product |-> <<"A","p","p">>,
     sentiment |-> "positive", urgency |-> "low", entities |-> Some(<<>>),
     summary |-> <<"s","u","m","m","a","r","y"," ","b","y"," ","L","L","M">>, next_action |-> "close_resolved",
     confidence_score |-> 0]
BadSentimentAnswer ==
    [customer_id |-> <<"C","_","L","L","M">>, product |-> <<"W","i","d","g","e","t">>,
     sentiment |-> "mixed", urgency |-> "high", entities |-> Some(<<>>),
     summary |-> <<"s","u","m","m","a","r","y"," ","b","y"," ","L","L","M">>, next_action |-> "technical_support",
     confidence_score |-> 500]
BadUrgencyAnswer ==
    [customer_id |-> <<"C","_","L","L","M">>, product |-> <<"W","i","d","g","e","t">>,
     sentiment |-> "neutral", urgency |-> "critical", entities |-> Some(<<>>),
     summary |-> <<"s","u","m","m","a","r","y"," ","b","y"," ","L","L","M">>, next_action |-> "schedule_call",
     confidence_score |-> 500]
BadConfidenceAnswer ==
    [customer_id |-> <<"C","_","L","L","M">>, product |-> <<"W","i","d","g","e","t">>,
     sentiment |-> "neutral", urgency |-> "medium", entities |-> Some(<<>>),
     summary |-> <<"s","u","m","m","a","r","y"," ","b","y"," ","L","L","M">>, next_action |-> "schedule_call",
     confidence_score |-> 1500]
NullEntitiesAnswer ==
    [customer_id |-> <<"C","_","L","L","M">>, product |-> <<"W","i","d","g","e","t">>,
     sentiment |-> "neutral", urgency |-> "medium", entities |-> None,
     summary |-> <<"s","u","m","m","a","r","y"," ","b","y"," ","L","L","M">>, next_action |-> "schedule_call",
     confidence_score |-> 500]

LLMOutputs == {
    EscalatingAnswer, ResolvedAnswer, BadSentimentAnswer,
    BadUrgencyAnswer, BadConfidenceAnswer, NullEntitiesAnswer }

\* what awaiting self.agent.run can do: fail (network error, timeout) or
\* deliver an answer
LLMOutcomes ==
    {[kind |-> "error"]} \cup {[kind |-> "output", data |-> d] : d \in LLMOutputs}

\* self.agent.run with result_type=Ticket: result.data is a Ticket, or the
\* call raises when the answer does not validate as one
agent_run(outcome) ==
    IF outcome.kind = "error" THEN None
    ELSE IF outcome.data.entities = None THEN None
    ELSE LET data == [outcome.data EXCEPT !.entities = outcome.data.entities[1]]
         IN  IF ValidTicket(data) THEN Some(data) ELSE None

\* TrySynthesis without the confidence override
TrySynthesisKeepsLLMScore(outcome, sent, urg) ==
    LET result == agent_run(outcome)
    IN  IF result = None THEN None
        ELSE IF ValidTicket(result[1]) THEN Some(result[1]) ELSE None

\* the body of the try block: the ticket returned, or None when an
\* exception reaches the except clause
TrySynthesis(outcome, sent, urg) ==
    LET result == agent_run(outcome)
    IN  IF result = None THEN None
        ELSE LET ticket_data ==
                     [result[1] EXCEPT
                          !.confidence_score = FusedConfidence(sent, urg)]
             IN  IF ValidTicket(ticket_data) THEN Some(ticket_data) ELSE None

(***************************************************************************)
(* TriageAgent.process_email, one step per statement                       *)
(***************************************************************************)
UnsetSentiment == [sentiment |-> "unset", confidence |-> 0]
UnsetUrgency ==
    [urgency |-> "unset", confidence |-> 0,
     keyword_matches |-> [high |-> 0, medium |-> 0]]

EntitiesText == <<"O","n"," ","M","o","n","d","a","y"," ","j","o","h","n"," ","s","m","i",
      "t","h"," ","o","f"," ","A","c","m","e"," ","C","o","r","p"," ","s",
      "a","i","d"," ","t","h","e"," ","a","p","p"," ","i","s"," ","d","o",
      "w","n">>

\* base repeated and cut to exactly n characters
RepeatTo(base, n) == [i \in 1..n |-> base[((i - 1) % Len(base)) + 1]]

LongTextBase == <<"P","l","e","a","s","e"," ","l","o","o","k"," ","i","n","t","o"," ","m","y"," ","a","c","c","o","u","n","t","."," ">>

\* texts at the two sides of the summary limit
TextAtLimit == RepeatTo(LongTextBase, SummaryLimit)
TextOverLimit == RepeatTo(LongTextBase, SummaryLimit + 1)

\* a text that names a payment and holds no urgency keyword
PaymentText == <<"M","y"," ","P","A","Y","M","E","N","T"," ","w","a","s"," ","d","e","c","l","i","n","e","d">>

AgentTexts ==
    Texts \cup {EntitiesText, TextAtLimit, TextOverLimit, PaymentText}

AgentInit ==
    /\ email_text \in AgentTexts
    /\ doc \in Docs(email_text)
    /\ pc = "extract_entities"
    /\ entities = <<>>
    /\ product_mentions = <<>>
    /\ sentiment_result = UnsetSentiment
    /\ urgency_result = UnsetUrgency
    /\ llm_outcome = None
    /\ returned = None
    /\ raised = None
    /\ gather_error = None
    /\ path = "none"

Raise(step) ==
    /\ pc' = "raised"
    /\ raised' = Some(step)
    /\ gather_error' = Some(step)
    /\ UNCHANGED <<email_text, doc, entities, product_mentions,
                   sentiment_result, urgency_result, llm_outcome, returned,
                   path>>

ExtractEntities ==
    /\ pc = "extract_entities"
    /\ entities' = extract_entities(doc)
    /\ pc' = "extract_product_mentions"
    /\ UNCHANGED <<email_text, doc, product_mentions, sentiment_result,
                   urgency_result, llm_outcome, returned, raised, path>>
    /\ UNCHANGED <<gather_error, notAgentVars>>

\* the NER model fails to respond
ExtractEntitiesRaises ==
    /\ pc = "extract_entities"
    /\ Raise("extract_entities")
    /\ UNCHANGED notAgentVars

ExtractProductMentions ==
    /\ pc = "extract_product_mentions"
    /\ \E mentions \in extract_product_mentions(doc) :
           product_mentions' = mentions
    /\ pc' = "analyze_sentiment"
    /\ UNCHANGED <<email_text, doc, entities, sentiment_result,
                   urgency_result, llm_outcome, returned, raised, path>>
    /\ UNCHANGED <<gather_error, notAgentVars>>

ExtractProductMentionsRaises ==
    /\ pc = "extract_product_mentions"
    /\ Raise("extract_product_mentions")
    /\ UNCHANGED notAgentVars

AnalyzeSentiment ==
    /\ pc = "analyze_sentiment"
    /\ \E results \in PipelineOutputs :
           sentiment_result' = analyze_sentiment(results)
    /\ pc' = "classify_urgency"
    /\ UNCHANGED <<email_text, doc, entities, product_mentions,
                   urgency_result, llm_outcome, returned, raised, path>>
    /\ UNCHANGED <<gather_error, notAgentVars>>

\* AnalyzeSentimentRaises caught inside process_email: on to the fallback
AnalyzeSentimentRaisesCaught ==
    /\ pc = "analyze_sentiment"
    /\ pc' = "fallback"
    /\ gather_error' = Some("analyze_sentiment")
    /\ UNCHANGED <<email_text, doc, entities, product_mentions,
                   sentiment_result, urgency_result, llm_outcome, returned,
                   raised, path>>
    /\ UNCHANGED notAgentVars

\* the sentiment model fails to respond
AnalyzeSentimentRaises ==
    /\ pc = "analyze_sentiment"
    /\ Raise("analyze_sentiment")
    /\ UNCHANGED notAgentVars

ClassifyUrgency ==
    /\ pc = "classify_urgency"
    /\ urgency_result' = classify_urgency(email_text, sentiment_result.sentiment)
    /\ pc' = "llm_synthesis"
    /\ UNCHANGED <<email_text, doc, entities, product_mentions,
                   sentiment_result, llm_outcome, returned, raised, path>>
    /\ UNCHANGED <<gather_error, notAgentVars>>

\* LLMSynthesis without the except clause: the exception leaves process_email
LLMSynthesisPropagates ==
    /\ pc = "llm_synthesis"
    /\ \E outcome \in LLMOutcomes :
         LET ticket == TrySynthesis(outcome, sentiment_result, urgency_result)
         IN  /\ llm_outcome' = Some([outcome |-> outcome, failed |-> ticket = None])
             /\ IF ticket = None
                THEN /\ pc' = "raised"
                     /\ raised' = Some("llm_synthesis")
                     /\ UNCHANGED <<returned, path>>
                ELSE /\ pc' = "done"
                     /\ returned' = ticket
                     /\ path' = "llm"
                     /\ UNCHANGED raised
    /\ UNCHANGED <<email_text, doc, entities, product_mentions,
                   sentiment_result, urgency_result>>
    /\ UNCHANGED <<gather_error, notAgentVars>>

\* LLMSynthesis with one retry: a first failure runs the LLM step again
LLMSynthesisRetries ==
    /\ pc = "llm_synthesis"
    /\ \E outcome \in LLMOutcomes :
         LET ticket == TrySynthesis(outcome, sentiment_result, urgency_result)
         IN  /\ llm_outcome' = Some([outcome |-> outcome, failed |-> ticket = None])
             /\ IF ticket = None
                THEN /\ pc' = IF llm_outcome = None THEN "llm_synthesis"
                              ELSE "fallback"
                     /\ UNCHANGED <<returned, path>>
                ELSE /\ pc' = "done"
                     /\ returned' = ticket
                     /\ path' = "llm"
    /\ UNCHANGED <<email_text, doc, entities, product_mentions,
                   sentiment_result, urgency_result, raised>>
    /\ UNCHANGED <<gather_error, notAgentVars>>

\* the try block: await self.agent.run, override the confidence, rebuild
\* the Ticket; any exception enters the except clause
LLMSynthesis ==
    /\ pc = "llm_synthesis"
    /\ \E outcome \in LLMOutcomes :
         LET ticket == TrySynthesis(outcome, sentiment_result, urgency_result)
         IN  /\ llm_outcome' = Some([outcome |-> outcome, failed |-> ticket = None])
             /\ IF ticket = None
                THEN /\ pc' = "fallback"
                     /\ UNCHANGED <<returned, path>>
                ELSE /\ pc' = "done"
                     /\ returned' = ticket
                     /\ path' = "llm"
    /\ UNCHANGED <<email_text, doc, entities, product_mentions,
                   sentiment_result, urgency_result, raised>>
    /\ UNCHANGED <<gather_error, notAgentVars>>

\* Fallback that re-raises instead of building the ticket
FallbackReraises ==
    /\ pc = "fallback"
    /\ pc' = "raised"
    /\ raised' = Some("llm_synthesis")
    /\ UNCHANGED <<email_text, doc, entities, product_mentions,
                   sentiment_result, urgency_result, llm_outcome, returned,
                   path>>
    /\ UNCHANGED <<gather_error, notAgentVars>>

\* the except clause: return self._create_fallback_ticket(...)
Fallback ==
    /\ pc = "fallback"
    /\ LET ticket == create_fallback_ticket(email_text, entities,
                         product_mentions, sentiment_result, urgency_result)
       IN  IF ValidTicket(ticket)
           THEN /\ pc' = "done"
                /\ returned' = Some(ticket)
                /\ path' = "fallback"
                /\ UNCHANGED raised
           ELSE /\ pc' = "raised"
                /\ raised' = Some("fallback")
                /\ UNCHANGED <<returned, path>>
    /\ UNCHANGED <<email_text, doc, entities, product_mentions,
                   sentiment_result, urgency_result, llm_outcome>>
    /\ UNCHANGED <<gather_error, notAgentVars>>

AgentNext ==
    \/ ExtractEntities
    \/ ExtractEntitiesRaises
    \/ ExtractProductMentions
    \/ ExtractProductMentionsRaises
    \/ AnalyzeSentiment
    \/ AnalyzeSentimentRaises
    \/ ClassifyUrgency
    \/ LLMSynthesis
    \/ Fallback

\* what one whole call of process_email returns when no step of the signal
\* gathering raises: the ticket of the try block, else the fallback ticket
process_email(text, d, mentions, results, outcome) ==
    LET ents   == extract_entities(d)
        sent   == analyze_sentiment(results)
        urg    == classify_urgency(text, sent.sentiment)
        ticket == TrySynthesis(outcome, sent, urg)
    IN  IF ticket # None THEN ticket[1]
        ELSE create_fallback_ticket(text, ents, mentions, sent, urg)

(***************************************************************************)
(* BatchProcessor.process_email_batch                                      *)
(***************************************************************************)
\* asyncio.Semaphore(5)
ConcurrencyLimit == 5

RECURSIVE Bangs(_)
Bangs(n) == IF n = 0 THEN <<>> ELSE <<"!">> \o Bangs(n - 1)

\* the i-th email of the batch; the emails are pairwise different
BatchEmail(i) == <<"h","e","l","p">> \o Bangs(i)

\* what the LLM does for one email of the batch: it fails on the emails of
\* even length and answers on the others
BatchLLMOutcome(text) ==
    IF Len(text) % 2 = 0 THEN [kind |-> "error"]
    ELSE [kind |-> "output", data |-> [EscalatingAnswer EXCEPT !.summary = text]]

\* the tickets process_email can return for one email of the batch
BatchTickets(text) ==
    {process_email(text, d, m, r, o) :
        d \in Docs(text), m \in ListsOfSet({}), r \in {NegativeScores},
        o \in {BatchLLMOutcome(text)}}

\* the fields a Ticket call made while email i is processed is given: one
\* constrained field out of its domain at a time, then two acceptable sets
BatchCandidate(i) ==
    CASE i % 6 = 1 -> TicketFields(<<"C","_","1">>, "invalid_sentiment", "low", 500)
      [] i % 6 = 2 -> TicketFields(<<"C","_","1">>, "neutral", "super_mega_urgent", 500)
      [] i % 6 = 3 -> TicketFields(<<"C","_","1">>, "neutral", "low", 1500)
      [] i % 6 = 4 -> TicketFields(<<"C","_","1">>, "neutral", "low", 0 - 1)
      [] i % 6 = 5 -> TicketFields(<<"C","_","1">>, "neutral", "low", 1000)
      [] OTHER     -> TicketFields(<<>>, "positive", "high", 0)

BatchInit ==
    /\ \E n \in 0..MaxEmails :
        /\ emails = [i \in 1..n |-> BatchEmail(i)]
        /\ task_pc = [i \in 1..n |-> "created"]
        /\ call_outcome = [i \in 1..n |->
                            [kind |-> "none", ticket |-> None, error |-> "none"]]
        /\ task_result = [i \in 1..n |-> None]
    /\ semaphore = ConcurrencyLimit
    /\ waiters = <<>>
    /\ progress = 0
    /\ gathered = None
    /\ batch_return = None
    /\ batch_raised = FALSE
    /\ out_of_order = FALSE

Tasks == 1..Len(emails)

\* process_email invocations that have started and not finished
InFlight == {i \in Tasks : task_pc[i] = "running"}

\* Semaphore.locked()
Locked == semaphore = 0 \/ waiters # <<>>

\* TaskStartAcquires without the test of the semaphore
TaskStartUngated(i) ==
    /\ task_pc[i] = "created"
    /\ \A j \in 1..(i - 1) : task_pc[j] # "created"
    /\ semaphore' = semaphore - 1
    /\ task_pc' = [task_pc EXCEPT ![i] = "running"]
    /\ UNCHANGED <<emails, out_of_order, call_outcome, task_result, waiters, progress,
                   gathered, batch_return, batch_raised>>
    /\ UNCHANGED notBatchVars

\* async with semaphore: a slot is free, the task goes on into process_email
TaskStartAcquires(i) ==
    /\ task_pc[i] = "created"
    /\ \A j \in 1..(i - 1) : task_pc[j] # "created"
    /\ ~Locked
    /\ semaphore' = semaphore - 1
    /\ task_pc' = [task_pc EXCEPT ![i] = "running"]
    /\ UNCHANGED <<emails, out_of_order, call_outcome, task_result, waiters, progress,
                   gathered, batch_return, batch_raised>>
    /\ UNCHANGED notBatchVars

\* async with semaphore: no slot is free, the task queues
TaskStartWaits(i) ==
    /\ task_pc[i] = "created"
    /\ \A j \in 1..(i - 1) : task_pc[j] # "created"
    /\ Locked
    /\ waiters' = Append(waiters, i)
    /\ task_pc' = [task_pc EXCEPT ![i] = "waiting"]
    /\ UNCHANGED <<emails, out_of_order, call_outcome, task_result, semaphore, progress,
                   gathered, batch_return, batch_raised>>
    /\ UNCHANGED notBatchVars

\* a task woken by a release goes on into process_email
TaskResumes(i) ==
    /\ task_pc[i] = "woken"
    /\ task_pc' = [task_pc EXCEPT ![i] = "running"]
    /\ UNCHANGED <<emails, out_of_order, call_outcome, task_result, semaphore, waiters,
                   progress, gathered, batch_return, batch_raised>>
    /\ UNCHANGED notBatchVars

\* leaving `async with`: Semaphore.release() hands the slot to the first
\* waiter, or returns it to the counter; task i is done.  out_of_order
\* remembers that a task ended while an earlier email's task had not.
ReleaseBy(i) ==
    /\ IF waiters # <<>>
       THEN /\ task_pc' = [task_pc EXCEPT ![i] = "done", ![Head(waiters)] = "woken"]
            /\ waiters' = Tail(waiters)
            /\ UNCHANGED semaphore
       ELSE /\ task_pc' = [task_pc EXCEPT ![i] = "done"]
            /\ semaphore' = semaphore + 1
            /\ UNCHANGED waiters
    /\ out_of_order' = (out_of_order \/ \E j \in 1..(i - 1) : task_pc[j] # "done")

\* process_single: process_email returned a ticket
TaskReturns(i) ==
    /\ task_pc[i] = "running"
    /\ \E ticket \in BatchTickets(emails[i]) :
        /\ call_outcome' = [call_outcome EXCEPT
                               ![i] = [kind |-> "returned", ticket |-> Some(ticket),
                                       error |-> "none"]]
        /\ task_result' = [task_result EXCEPT ![i] = Some(ticket)]
    /\ progress' = progress + 1
    /\ ReleaseBy(i)
    /\ UNCHANGED <<emails, gathered, batch_return, batch_raised>>
    /\ UNCHANGED notBatchVars

\* TaskRaises without the except clause: gather re-raises and the batch aborts
TaskRaisesAborts(i) ==
    /\ task_pc[i] = "running"
    /\ call_outcome' = [call_outcome EXCEPT
                           ![i] = [kind |-> "raised", ticket |-> None,
                                   error |-> "Exception"]]
    /\ batch_raised' = TRUE
    /\ ReleaseBy(i)
    /\ UNCHANGED <<emails, task_result, progress, gathered, batch_return>>
    /\ UNCHANGED notBatchVars

\* TaskRaises leaving `async with` without the release: the slot is lost
TaskRaisesLeaksSlot(i) ==
    /\ task_pc[i] = "running"
    /\ call_outcome' = [call_outcome EXCEPT
                           ![i] = [kind |-> "raised", ticket |-> None,
                                   error |-> "Exception"]]
    /\ task_result' = [task_result EXCEPT ![i] = None]
    /\ progress' = progress + 1
    /\ task_pc' = [task_pc EXCEPT ![i] = "done"]
    /\ out_of_order' = (out_of_order \/ \E j \in 1..(i - 1) : task_pc[j] # "done")
    /\ UNCHANGED <<emails, semaphore, waiters, gathered, batch_return,
                   batch_raised>>
    /\ UNCHANGED notBatchVars

\* process_single: process_email raised; the except clause returns None
TaskRaises(i) ==
    /\ task_pc[i] = "running"
    /\ call_outcome' = [call_outcome EXCEPT
                           ![i] = [kind |-> "raised", ticket |-> None,
                                   error |-> "Exception"]]
    /\ task_result' = [task_result EXCEPT ![i] = None]
    /\ progress' = progress + 1
    /\ ReleaseBy(i)
    /\ UNCHANGED <<emails, gathered, batch_return, batch_raised>>
    /\ UNCHANGED notBatchVars

\* process_single: the call builds a Ticket from BatchCandidate(i); a
\* ValidationError is one more Exception for the except clause, an accepted
\* ticket is returned
TaskConstructsTicket(i) ==
    /\ task_pc[i] = "running"
    /\ LET made == Ticket(BatchCandidate(i))
       IN  IF made = None
           THEN /\ call_outcome' = [call_outcome EXCEPT
                                       ![i] = [kind |-> "raised", ticket |-> None,
                                               error |-> "ValidationError"]]
                /\ task_result' = [task_result EXCEPT ![i] = None]
           ELSE /\ call_outcome' = [call_outcome EXCEPT
                                       ![i] = [kind |-> "returned", ticket |-> made,
                                               error |-> "none"]]
                /\ task_result' = [task_result EXCEPT ![i] = made]
    /\ progress' = progress + 1
    /\ ReleaseBy(i)
    /\ UNCHANGED <<emails, gathered, batch_return, batch_raised>>
    /\ UNCHANGED notBatchVars

RECURSIVE NotNoneReversed(_)
\* NotNone building the list from the back
NotNoneReversed(tickets) ==
    IF tickets = <<>> THEN <<>>
    ELSE IF Head(tickets) = None THEN NotNoneReversed(Tail(tickets))
    ELSE NotNoneReversed(Tail(tickets)) \o <<Head(tickets)[1]>>

RECURSIVE NotNone(_)
\* [ticket for ticket in tickets if ticket is not None]
NotNone(tickets) ==
    IF tickets = <<>> THEN <<>>
    ELSE IF Head(tickets) = None THEN NotNone(Tail(tickets))
    ELSE <<Head(tickets)[1]>> \o NotNone(Tail(tickets))

\* await asyncio.gather(*tasks) completes and the filtered list is returned
GatherReturns ==
    /\ batch_return = None
    /\ ~batch_raised
    /\ \A i \in Tasks : task_pc[i] = "done"
    /\ gathered' = Some(task_result)
    /\ batch_return' = Some(NotNone(task_result))
    /\ UNCHANGED <<emails, out_of_order, task_pc, call_outcome, task_result, semaphore,
                   waiters, progress, batch_raised>>
    /\ UNCHANGED notBatchVars

BatchNext ==
    \/ \E i \in Tasks : TaskStartAcquires(i)
    \/ \E i \in Tasks : TaskStartWaits(i)
    \/ \E i \in Tasks : TaskResumes(i)
    \/ \E i \in Tasks : TaskReturns(i)
    \/ \E i \in Tasks : TaskRaises(i)
    \/ \E i \in Tasks : TaskConstructsTicket(i)
    \/ GatherReturns

(***************************************************************************)
(* test_demo.create_demo_ticket: the ML-only ticket                        *)
(***************************************************************************)
\* the loop over entities that stops at the first PERSON or ORG
DemoCustomerId(ents) ==
    LET hits == {i \in 1..Len(ents) : ents[i].label \in {"PERSON", "ORG"}}
    IN  IF hits = {} THEN <<"U","N","K","N","O","W","N">>
        ELSE LET first == CHOOSE i \in hits : \A j \in hits : i <= j
             IN  <<"C","_">> \o [k \in 1..Len(ents[first].text) |->
                               UpperChar(IF ents[first].text[k] = " " THEN "_"
                                         ELSE ents[first].text[k])]

DemoProduct(mentions) ==
    IF Len(mentions) > 0 THEN mentions[1] ELSE <<"G","e","n","e","r","a","l"," ","S","u","p","p","o","r","t">>

\* DemoSummary cutting at 50 characters
DemoSummaryShort(text) ==
    IF Len(text) > 50 THEN SubSeq(text, 1, 50) \o <<".",".",".">> ELSE text

DemoSummary(text) ==
    IF Len(text) > 100 THEN SubSeq(text, 1, 100) \o <<".",".",".">> ELSE text

\* DemoNextAction with the billing rule tried first
DemoNextActionBillingFirst(text, sentiment, urgency) ==
    IF IsSubstring(<<"b","i","l","l","i","n","g">>, Lower(text)) \/ IsSubstring(<<"p","a","y","m","e","n","t">>, Lower(text))
    THEN "assign_to_billing"
    ELSE IF urgency = "high" THEN "escalate_to_tier_2"
    ELSE IF sentiment = "negative" THEN "assign_to_senior_support"
    ELSE "assign_to_support"

\* the if / elif chain on urgency, sentiment and the text
DemoNextAction(text, sentiment, urgency) ==
    IF urgency = "high" THEN "escalate_to_tier_2"
    ELSE IF sentiment = "negative" THEN "assign_to_senior_support"
    ELSE IF IsSubstring(<<"b","i","l","l","i","n","g">>, Lower(text)) \/ IsSubstring(<<"p","a","y","m","e","n","t">>, Lower(text))
    THEN "assign_to_billing"
    ELSE "assign_to_support"

\* the fields create_demo_ticket hands to the Ticket constructor
create_demo_ticket(text, ents, mentions, sent, urg) ==
    [customer_id |-> DemoCustomerId(ents),
     product |-> DemoProduct(mentions),
     sentiment |-> sent.sentiment,
     urgency |-> urg.urgency,
     entities |-> ents,
     summary |-> DemoSummary(text),
     next_action |-> DemoNextAction(text, sent.sentiment, urg.urgency),
     confidence_score |-> (sent.confidence + urg.confidence) \div 2]

(***************************************************************************)
(* triage.py main: the command line tool                                   *)
(***************************************************************************)
IsSpace(c) == c \in {" ", "\n", "\t", "\r"}

\* str.strip()
Strip(s) ==
    LET keep == {i \in 1..Len(s) : ~IsSpace(s[i])}
    IN  IF keep = {} THEN <<>>
        ELSE SubSeq(s, CHOOSE i \in keep : \A j \in keep : i <= j,
                       CHOOSE i \in keep : \A j \in keep : i >= j)

UrgentBillingText == <<"U","R","G","E","N","T"," ","b","i","l","l","i","n","g"," ","e","r","r","o","r",","," ","a","p","p"," ","c","r","a","s","h">>
PaddedText == <<" "," ","h","i","\n">>
BlankText == <<" ","\n">>

\* what the file or standard input can hold
CliContents ==
    Texts \cup {EntitiesText, UrgentBillingText, PaymentText, PaddedText, BlankText}

UnsetSignals ==
    [entities |-> <<>>, product_mentions |-> <<>>,
     sentiment_result |-> UnsetSentiment, urgency_result |-> UnsetUrgency]

\* the ML signals both ticket builders start from
Signals(text, d, mentions, results) ==
    LET sent == analyze_sentiment(results)
    IN  [entities |-> extract_entities(d),
         product_mentions |-> mentions,
         sentiment_result |-> sent,
         urgency_result |-> classify_urgency(text, sent.sentiment)]

CliInit ==
    /\ cli_demo \in BOOLEAN
    /\ cli_source \in {"file", "stdin"}
    /\ cli_content \in CliContents
    /\ cli_pc = "start"
    /\ cli_email_text = <<>>
    /\ cli_agent = FALSE
    /\ cli_llm_calls = 0
    /\ cli_signals = UnsetSignals
    /\ cli_ticket = None
    /\ cli_exit = None

\* sys.exit(1)
CliExit1 ==
    /\ cli_pc' = "exited"
    /\ cli_exit' = Some(1)
    /\ UNCHANGED <<cli_demo, cli_source, cli_content, cli_email_text,
                   cli_agent, cli_llm_calls, cli_signals, cli_ticket>>
    /\ UNCHANGED notCliVars

\* --demo: no agent
CliStartDemo ==
    /\ cli_pc = "start"
    /\ cli_demo
    /\ cli_pc' = "read"
    /\ UNCHANGED <<cli_demo, cli_source, cli_content, cli_email_text,
                   cli_agent, cli_llm_calls, cli_signals, cli_ticket, cli_exit>>
    /\ UNCHANGED notCliVars

\* agent = TriageAgent(llm_model=args.model)
CliStartAgent ==
    /\ cli_pc = "start"
    /\ ~cli_demo
    /\ cli_agent' = TRUE
    /\ cli_pc' = "read"
    /\ UNCHANGED <<cli_demo, cli_source, cli_content, cli_email_text,
                   cli_llm_calls, cli_signals, cli_ticket, cli_exit>>
    /\ UNCHANGED notCliVars

\* the constructor raises (no API key, model missing)
CliStartAgentFails ==
    /\ cli_pc = "start"
    /\ ~cli_demo
    /\ CliExit1

\* email_text = Path(args.file).read_text()
CliReadFile ==
    /\ cli_pc = "read"
    /\ cli_source = "file"
    /\ cli_email_text' = cli_content
    /\ cli_pc' = "process"
    /\ UNCHANGED <<cli_demo, cli_source, cli_content, cli_agent,
                   cli_llm_calls, cli_signals, cli_ticket, cli_exit>>
    /\ UNCHANGED notCliVars

\* the file cannot be read
CliReadFileFails ==
    /\ cli_pc = "read"
    /\ cli_source = "file"
    /\ CliExit1

\* email_text = sys.stdin.read().strip()
CliReadStdin ==
    /\ cli_pc = "read"
    /\ cli_source = "stdin"
    /\ Strip(cli_content) # <<>>
    /\ cli_email_text' = Strip(cli_content)
    /\ cli_pc' = "process"
    /\ UNCHANGED <<cli_demo, cli_source, cli_content, cli_agent,
                   cli_llm_calls, cli_signals, cli_ticket, cli_exit>>
    /\ UNCHANGED notCliVars

\* nothing but white space on standard input
CliReadStdinEmpty ==
    /\ cli_pc = "read"
    /\ cli_source = "stdin"
    /\ Strip(cli_content) = <<>>
    /\ CliExit1

\* ticket = create_demo_ticket(email_text), then the output
CliProcessDemo ==
    /\ cli_pc = "process"
    /\ cli_demo
    /\ \E d \in Docs(cli_email_text), r \in PipelineOutputs :
         \E m \in extract_product_mentions(d) :
            LET s == Signals(cli_email_text, d, m, r)
                ticket == create_demo_ticket(cli_email_text, s.entities,
                              s.product_mentions, s.sentiment_result,
                              s.urgency_result)
            IN  /\ cli_signals' = s
                /\ IF ValidTicket(ticket)
                   THEN /\ cli_ticket' = Some(ticket)
                        /\ cli_pc' = "done"
                        /\ UNCHANGED cli_exit
                   ELSE /\ cli_pc' = "exited"
                        /\ cli_exit' = Some(1)
                        /\ UNCHANGED cli_ticket
    /\ UNCHANGED <<cli_demo, cli_source, cli_content, cli_email_text,
                   cli_agent, cli_llm_calls>>
    /\ UNCHANGED notCliVars

\* a model used by create_demo_ticket raises
CliProcessDemoFails ==
    /\ cli_pc = "process"
    /\ cli_demo
    /\ CliExit1

\* ticket = agent.process_email_sync(email_text), then the output
CliProcessAgent ==
    /\ cli_pc = "process"
    /\ ~cli_demo
    /\ \E d \in Docs(cli_email_text), r \in PipelineOutputs, o \in LLMOutcomes :
         \E m \in extract_product_mentions(d) :
            /\ cli_signals' = Signals(cli_email_text, d, m, r)
            /\ cli_ticket' = Some(process_email(cli_email_text, d, m, r, o))
    /\ cli_llm_calls' = cli_llm_calls + 1
    /\ cli_pc' = "done"
    /\ UNCHANGED <<cli_demo, cli_source, cli_content, cli_email_text,
                   cli_agent, cli_exit>>
    /\ UNCHANGED notCliVars

\* process_email raises while gathering the signals
CliProcessAgentFails ==
    /\ cli_pc = "process"
    /\ ~cli_demo
    /\ CliExit1

CliNext ==
    \/ CliStartDemo
    \/ CliStartAgent
    \/ CliStartAgentFails
    \/ CliReadFile
    \/ CliReadFileFails
    \/ CliReadStdin
    \/ CliReadStdinEmpty
    \/ CliProcessDemo
    \/ CliProcessDemoFails
    \/ CliProcessAgent
    \/ CliProcessAgentFails

(***************************************************************************)
(* api_server.py: POST /triage and GET /health                             *)
(***************************************************************************)
ApiTexts == SampleTexts

\* str(e) of the exception process_email raises
ErrorMessages == { <<"m","o","d","e","l"," ","u","n","a","v","a","i","l","a","b","l","e">> }

NoCall == [kind |-> "none", ticket |-> None]

\* a response: status code, and the ticket, the error detail or the health
\* body it carries
Response(code, ticket, detail, health) ==
    [code |-> code, ticket |-> ticket, detail |-> detail, health |-> health]

ApiInit ==
    /\ api_pc = "idle"
    /\ api_agent_ok = TRUE
    /\ api_request = [kind |-> "none", email_text |-> <<>>]
    /\ api_call = NoCall
    /\ api_response = None
    /\ api_handled = 0

\* the models behind the global agent stop responding
ApiModelsFail ==
    /\ api_pc = "idle"
    /\ api_agent_ok
    /\ api_agent_ok' = FALSE
    /\ UNCHANGED <<api_pc, api_request, api_call, api_response, api_handled>>
    /\ UNCHANGED notApiVars

\* the models respond again
ApiModelsRecover ==
    /\ api_pc = "idle"
    /\ ~api_agent_ok
    /\ api_agent_ok' = TRUE
    /\ UNCHANGED <<api_pc, api_request, api_call, api_response, api_handled>>
    /\ UNCHANGED notApiVars

\* a client sends POST /triage
ApiPostTriage ==
    /\ api_pc = "idle"
    /\ api_handled < MaxRequests
    /\ \E text \in ApiTexts :
         api_request' = [kind |-> "triage", email_text |-> text]
    /\ api_pc' = "handling"
    /\ api_call' = NoCall
    /\ api_response' = None
    /\ UNCHANGED <<api_agent_ok, api_handled>>
    /\ UNCHANGED notApiVars

\* a client sends GET /health
ApiGetHealth ==
    /\ api_pc = "idle"
    /\ api_handled < MaxRequests
    /\ api_request' = [kind |-> "health", email_text |-> <<>>]
    /\ api_pc' = "handling"
    /\ api_call' = NoCall
    /\ api_response' = None
    /\ UNCHANGED <<api_agent_ok, api_handled>>
    /\ UNCHANGED notApiVars

\* triage_email: process_email returns and the ticket is the response
ApiTriageReturns ==
    /\ api_pc = "handling"
    /\ api_request.kind = "triage"
    /\ api_agent_ok
    /\ \E d \in Docs(api_request.email_text), r \in PipelineOutputs,
          o \in LLMOutcomes :
         \E m \in extract_product_mentions(d) :
            LET ticket == process_email(api_request.email_text, d, m, r, o)
            IN  /\ api_call' = [kind |-> "returned", ticket |-> Some(ticket)]
                /\ api_response' = Some(Response(200, Some(ticket), None, None))
    /\ api_pc' = "idle"
    /\ api_handled' = api_handled + 1
    /\ UNCHANGED <<api_agent_ok, api_request>>
    /\ UNCHANGED notApiVars

\* triage_email with the exception escaping: the framework answers 500
\* without the message
ApiTriageRaisesUncaught ==
    /\ api_pc = "handling"
    /\ api_request.kind = "triage"
    /\ ~api_agent_ok
    /\ api_call' = [kind |-> "raised", ticket |-> None]
    /\ api_response' = Some(Response(500, None, None, None))
    /\ api_pc' = "idle"
    /\ api_handled' = api_handled + 1
    /\ UNCHANGED <<api_agent_ok, api_request>>
    /\ UNCHANGED notApiVars

\* triage_email: process_email raises and the except clause raises
\* HTTPException(500, "Error processing email: ...")
ApiTriageRaises ==
    /\ api_pc = "handling"
    /\ api_request.kind = "triage"
    /\ ~api_agent_ok
    /\ api_call' = [kind |-> "raised", ticket |-> None]
    /\ \E e \in ErrorMessages :
         api_response' =
            Some(Response(500, None,
                          Some(<<"E","r","r","o","r"," ","p","r","o","c","e","s","s","i","n","g"," ",
          "e","m","a","i","l",":"," ">> \o e), None))
    /\ api_pc' = "idle"
    /\ api_handled' = api_handled + 1
    /\ UNCHANGED <<api_agent_ok, api_request>>
    /\ UNCHANGED notApiVars

\* health_check
ApiHealthCheck ==
    /\ api_pc = "handling"
    /\ api_request.kind = "health"
    /\ api_response' =
         Some(Response(200, None, None,
                       Some([status |-> "healthy", version |-> "0.1.0"])))
    /\ api_pc' = "idle"
    /\ api_handled' = api_handled + 1
    /\ UNCHANGED <<api_agent_ok, api_request, api_call>>
    /\ UNCHANGED notApiVars

ApiNext ==
    \/ ApiModelsFail
    \/ ApiModelsRecover
    \/ ApiPostTriage
    \/ ApiGetHealth
    \/ ApiTriageReturns
    \/ ApiTriageRaises
    \/ ApiHealthCheck

(***************************************************************************)
(* processor.py: load_emails_from_file                                     *)
(***************************************************************************)
ContentChars == {"a", "b", " ", "\n"}

FileContents == UNION {[1..n -> ContentChars] : n \in 0..MaxContent}

\* a path names nothing, a readable text file, or something read_text fails on
FileKinds == {"missing", "file", "unreadable"}

\* str.find(sep) + 1: the first position where sep starts, 0 when absent
Find(s, sep) ==
    LET at == {i \in 1..(Len(s) - Len(sep) + 1) :
                  SubSeq(s, i, i + Len(sep) - 1) = sep}
    IN  IF at = {} THEN 0 ELSE CHOOSE i \in at : \A j \in at : i <= j

RECURSIVE Split(_, _)
\* str.split(sep): left to right, empty pieces kept
Split(s, sep) ==
    LET i == Find(s, sep)
    IN  IF i = 0 THEN <<s>>
        ELSE <<SubSeq(s, 1, i - 1)>> \o Split(SubSeq(s, i + Len(sep), Len(s)), sep)

\* [f(x) for x in seq if keep(x)] with f = strip, keep = bool(strip)
StripNonEmpty(seq) ==
    LET Test(e) == Strip(e) # <<>>
    IN  [i \in 1..Len(SelectSeq(seq, Test)) |-> Strip(SelectSeq(seq, Test)[i])]

\* the entries kept as they are in the file
load_emails_from_fileUnstripped(content) ==
    LET byBlank == Split(content, <<"\n", "\n">>)
        entries == IF Len(byBlank) = 1 THEN Split(content, <<"\n">>)
                   ELSE byBlank
        Test(e) == Strip(e) # <<>>
    IN  SelectSeq(entries, Test)

\* load_emails_from_file on a file that exists and can be read
load_emails_from_file(content) ==
    LET byBlank == Split(content, <<"\n", "\n">>)
        entries == IF Len(byBlank) = 1 THEN Split(content, <<"\n">>)
                   ELSE byBlank
    IN  StripNonEmpty(entries)

LoadInit ==
    /\ load_pc = "start"
    /\ file_kind \in FileKinds
    /\ file_content \in (IF file_kind = "file" THEN FileContents ELSE {<<>>})
    /\ loaded = None
    /\ load_raised = FALSE

\* the path does not exist: a message is printed and [] returned
LoadMissing ==
    /\ load_pc = "start"
    /\ file_kind = "missing"
    /\ loaded' = Some(<<>>)
    /\ load_pc' = "done"
    /\ UNCHANGED <<file_kind, file_content, load_raised>>
    /\ UNCHANGED notLoadVars

\* path.read_text() raises (a directory, no permission, undecodable bytes)
LoadReadFails ==
    /\ load_pc = "start"
    /\ file_kind = "unreadable"
    /\ load_raised' = TRUE
    /\ load_pc' = "done"
    /\ UNCHANGED <<file_kind, file_content, loaded>>
    /\ UNCHANGED notLoadVars

\* the file is read, split, stripped and filtered
LoadEmails ==
    /\ load_pc = "start"
    /\ file_kind = "file"
    /\ loaded' = Some(load_emails_from_file(file_content))
    /\ load_pc' = "done"
    /\ UNCHANGED <<file_kind, file_content, load_raised>>
    /\ UNCHANGED notLoadVars

LoadNext ==
    \/ LoadMissing
    \/ LoadReadFails
    \/ LoadEmails

(***************************************************************************)
(* dev_setup.py: run_command, the setup steps and main                     *)
(***************************************************************************)
\* what a shell command can do: its exit status and what it wrote on
\* standard output
CommandOutcomes ==
    {[status |-> 0, stdout |-> <<"o","k","\n">>],
     [status |-> 0, stdout |-> <<>>],
     [status |-> 1, stdout |-> <<"n","o">>],
     [status |-> 1, stdout |-> <<>>]}

\* the import test prints a line before it ends, with either status
ImportTestOutcomes ==
    {[status |-> 0, stdout |-> <<"i","m","p","o","r","t","s"," ","s","u","c","c","e","s","s","f","u","l","\n">>],
     [status |-> 1, stdout |-> <<"i","m","p","o","r","t"," ","f","a","i","l","e","d","\n">>],
     [status |-> 1, stdout |-> <<>>]}

\* run_command: stdout when the command exits with 0, None when
\* subprocess.run(check=True) raises CalledProcessError
run_command(outcome) ==
    IF outcome.status = 0 THEN Some(outcome.stdout) ELSE None

\* bool(x) for x a string or None
Truthy(r) == r # None /\ r[1] # <<>>

RequiredTools == <<"uv", "bazel", "python">>

SetupInit ==
    /\ ds_pc = "check_uv"
    /\ ds_verify_env \in [build : CommandOutcomes, imports : ImportTestOutcomes]
    /\ ds_results = <<>>
    /\ ds_missing = <<>>
    /\ ds_verified = None
    /\ ds_exit = None

\* sys.exit(1)
SetupExit1 ==
    /\ ds_pc' = "exit"
    /\ ds_exit' = Some(1)

\* check_requirements: one tool per step, all three are tried; main exits
\* with 1 after the last when a tool is missing
check_requirements ==
    /\ \E k \in 1..3, o \in CommandOutcomes :
         LET r == run_command(o)
             missing == IF r = None THEN Append(ds_missing, RequiredTools[k])
                        ELSE ds_missing
         IN  /\ ds_pc = <<"check_uv", "check_bazel", "check_python">>[k]
             /\ ds_results' = Append(ds_results, r)
             /\ ds_missing' = missing
             /\ IF k < 3
                THEN /\ ds_pc' = <<"check_uv", "check_bazel", "check_python">>[k + 1]
                     /\ UNCHANGED ds_exit
                ELSE IF missing # <<>> THEN SetupExit1
                ELSE /\ ds_pc' = "uv_venv"
                     /\ UNCHANGED ds_exit
    /\ UNCHANGED <<ds_verify_env, ds_verified>>
    /\ UNCHANGED notSetupVars

\* a step whose command must not fail: `if run_command(...) is None`
RequiredStep(here, next) ==
    /\ ds_pc = here
    /\ \E o \in CommandOutcomes :
         LET r == run_command(o)
         IN  /\ ds_results' = Append(ds_results, r)
             /\ IF r = None THEN SetupExit1
                ELSE /\ ds_pc' = next
                     /\ UNCHANGED ds_exit
    /\ UNCHANGED <<ds_verify_env, ds_missing, ds_verified>>
    /\ UNCHANGED notSetupVars

\* setup_python_environment: uv venv, then uv pip install -e .
setup_python_environment ==
    /\ ds_pc \in {"uv_venv", "uv_pip_install"}
    /\ RequiredStep(ds_pc, IF ds_pc = "uv_venv" THEN "uv_pip_install"
                           ELSE "spacy_download")

\* download_spacy_models: a failure is reported and the run goes on
download_spacy_models ==
    /\ ds_pc = "spacy_download"
    /\ \E o \in CommandOutcomes :
         ds_results' = Append(ds_results, run_command(o))
    /\ ds_pc' = "bazel_clean"
    /\ UNCHANGED <<ds_verify_env, ds_missing, ds_verified, ds_exit>>
    /\ UNCHANGED notSetupVars

\* setup_bazel: bazel clean, then bazel sync
setup_bazel ==
    /\ ds_pc \in {"bazel_clean", "bazel_sync"}
    /\ RequiredStep(ds_pc, IF ds_pc = "bazel_clean" THEN "bazel_sync"
                           ELSE "verify_build")

\* verify_setup, the Bazel build: `if run_command(...)`
verify_setup_build ==
    /\ ds_pc = "verify_build"
    /\ LET r == run_command(ds_verify_env.build)
       IN  /\ ds_results' = Append(ds_results, r)
           /\ IF Truthy(r)
              THEN /\ ds_pc' = "verify_imports"
                   /\ UNCHANGED <<ds_verified, ds_exit>>
              ELSE /\ ds_verified' = Some(FALSE)
                   /\ SetupExit1
    /\ UNCHANGED <<ds_verify_env, ds_missing>>
    /\ UNCHANGED notSetupVars

\* verify_setup, the import test; main prints the success message when
\* verify_setup returns True
verify_setup_imports ==
    /\ ds_pc = "verify_imports"
    /\ LET r == run_command(ds_verify_env.imports)
       IN  /\ ds_results' = Append(ds_results, r)
           /\ IF Truthy(r)
              THEN /\ ds_verified' = Some(TRUE)
                   /\ ds_pc' = "done"
                   /\ ds_exit' = Some(0)
              ELSE /\ ds_verified' = Some(FALSE)
                   /\ SetupExit1
    /\ UNCHANGED <<ds_verify_env, ds_missing>>
    /\ UNCHANGED notSetupVars

SetupNext ==
    \/ check_requirements
    \/ setup_python_environment
    \/ download_spacy_models
    \/ setup_bazel
    \/ verify_setup_build
    \/ verify_setup_imports

(***************************************************************************)
(* classify_urgency as a function of its two arguments                     *)
(***************************************************************************)
CuInit ==
    /\ cu_text \in Texts
    /\ cu_sentiment \in Sentiments
    /\ cu_result = None

CuClassify ==
    /\ cu_result = None
    /\ cu_result' = Some(classify_urgency(cu_text, cu_sentiment))
    /\ UNCHANGED <<cu_text, cu_sentiment>>
    /\ UNCHANGED notCuVars

(***************************************************************************)
(* Specifications                                                          *)
(***************************************************************************)
CuIdle ==
    /\ cu_text = <<>>
    /\ cu_sentiment = "neutral"
    /\ cu_result = None

AgentIdle ==
    /\ email_text = <<>>
    /\ doc = [ents |-> <<>>, nouns |-> <<>>]
    /\ pc = "idle"
    /\ entities = <<>>
    /\ product_mentions = <<>>
    /\ sentiment_result = UnsetSentiment
    /\ urgency_result = UnsetUrgency
    /\ llm_outcome = None
    /\ returned = None
    /\ raised = None
    /\ gather_error = None
    /\ path = "none"

BatchIdle ==
    /\ emails = <<>>
    /\ task_pc = <<>>
    /\ call_outcome = <<>>
    /\ task_result = <<>>
    /\ semaphore = ConcurrencyLimit
    /\ waiters = <<>>
    /\ progress = 0
    /\ gathered = None
    /\ batch_return = Some(<<>>)
    /\ batch_raised = FALSE
    /\ out_of_order = FALSE

CliIdle ==
    /\ cli_demo = FALSE
    /\ cli_source = "file"
    /\ cli_content = <<>>
    /\ cli_pc = "idle"
    /\ cli_email_text = <<>>
    /\ cli_agent = FALSE
    /\ cli_llm_calls = 0
    /\ cli_signals = UnsetSignals
    /\ cli_ticket = None
    /\ cli_exit = None

ApiIdle ==
    /\ api_pc = "off"
    /\ api_agent_ok = TRUE
    /\ api_request = [kind |-> "none", email_text |-> <<>>]
    /\ api_call = NoCall
    /\ api_response = None
    /\ api_handled = 0

LoadIdle ==
    /\ load_pc = "off"
    /\ file_kind = "missing"
    /\ file_content = <<>>
    /\ loaded = None
    /\ load_raised = FALSE

SetupIdle ==
    /\ ds_pc = "off"
    /\ ds_verify_env = [build |-> [status |-> 0, stdout |-> <<>>],
                        imports |-> [status |-> 0, stdout |-> <<>>]]
    /\ ds_results = <<>>
    /\ ds_missing = <<>>
    /\ ds_verified = None
    /\ ds_exit = None

\* one call of process_email
Init == AgentInit /\ CuIdle /\ BatchIdle /\ CliIdle /\ ApiIdle /\ LoadIdle /\ SetupIdle
Next == AgentNext
Spec == Init /\ [][Next]_vars

\* classify_urgency on every text and sentiment
InitUrgency == CuInit /\ AgentIdle /\ BatchIdle /\ CliIdle /\ ApiIdle /\ LoadIdle /\ SetupIdle
NextUrgency == CuClassify
SpecUrgency == InitUrgency /\ [][NextUrgency]_vars

\* one call of process_email_batch
InitBatch == BatchInit /\ CuIdle /\ AgentIdle /\ CliIdle /\ ApiIdle /\ LoadIdle /\ SetupIdle
NextBatch == BatchNext
SpecBatch == InitBatch /\ [][NextBatch]_vars

\* the event loop runs every task that can start or resume
TaskStarts(i) == TaskStartAcquires(i) \/ TaskStartWaits(i) \/ TaskResumes(i)

\* a process_email call in flight ends, one way or another
CallEnds(i) == TaskRaises(i) \/ TaskConstructsTicket(i) \/ TaskReturns(i)

\* process_email_batch under an event loop that keeps running ready tasks
\* and with process_email calls that terminate
SpecBatchFair ==
    /\ InitBatch
    /\ [][NextBatch]_vars
    /\ WF_vars(GatherReturns)
    /\ \A i \in 1..MaxEmails :
         /\ WF_vars(i \in Tasks /\ TaskStarts(i))
         /\ WF_vars(i \in Tasks /\ CallEnds(i))

\* one run of the command line tool
InitCli == CliInit /\ CuIdle /\ AgentIdle /\ BatchIdle /\ ApiIdle /\ LoadIdle /\ SetupIdle
NextCli == CliNext
SpecCli == InitCli /\ [][NextCli]_vars

\* a run of the HTTP service
InitApi == ApiInit /\ CuIdle /\ AgentIdle /\ BatchIdle /\ CliIdle /\ LoadIdle /\ SetupIdle
NextApi == ApiNext
SpecApi == InitApi /\ [][NextApi]_vars

\* one call of load_emails_from_file
InitLoad == LoadInit /\ CuIdle /\ AgentIdle /\ BatchIdle /\ CliIdle /\ ApiIdle /\ SetupIdle
NextLoad == LoadNext
SpecLoad == InitLoad /\ [][NextLoad]_vars

\* one run of the development setup script
InitSetup ==
    SetupInit /\ CuIdle /\ AgentIdle /\ BatchIdle /\ CliIdle /\ ApiIdle /\ LoadIdle
NextSetup == SetupNext
SpecSetup == InitSetup /\ [][NextSetup]_vars

(***************************************************************************)
(* Properties of process_email  (Spec)                                     *)
(***************************************************************************)
GatherSteps == {"extract_entities", "extract_product_mentions", "analyze_sentiment"}

\* C1 (as stated): process_email never raises, whatever step fails.
C1_NeverRaises == raised = None

\* C1 (amended): an exception leaves process_email only from a signal
\* gathering call, before the LLM step has been attempted and with no ticket
\* produced; once the signals are gathered the call does not raise, and when
\* it ends it has returned a ticket that validates.
C1_RaisesOnlyWhileGathering ==
    /\ raised # None =>
         /\ raised[1] \in GatherSteps
         /\ pc = "raised"
         /\ llm_outcome = None
         /\ returned = None
    /\ pc \in {"llm_synthesis", "fallback", "done"} => raised = None
    /\ pc = "done" => returned # None /\ ValidTicket(returned[1])

\* the LLM call failed and the call still ended with a ticket
C1_Witness ==
    /\ pc = "done"
    /\ llm_outcome # None
    /\ llm_outcome[1].outcome.kind = "error"
    /\ returned # None

\* C2: every returned ticket has sentiment and urgency in their three-value
\* sets, an entities list (possibly empty), and a confidence_score in [0, 1].
C2_ReturnedTicketWellFormed ==
    returned # None =>
        /\ returned[1].sentiment \in Sentiments
        /\ returned[1].urgency \in Urgencies
        /\ DOMAIN returned[1].entities = 1..Len(returned[1].entities)
        /\ returned[1].confidence_score >= 0
        /\ returned[1].confidence_score <= 1000

\* the LLM answered with a sentiment outside the enumeration and a ticket
\* was returned all the same
C2_Witness ==
    /\ pc = "done"
    /\ llm_outcome # None
    /\ llm_outcome[1].outcome = [kind |-> "output", data |-> BadSentimentAnswer]
    /\ returned # None

\* the LLM step ended in an exception
LLMStepRaised ==
    /\ llm_outcome # None
    /\ \/ llm_outcome[1].outcome.kind = "error"
       \/ llm_outcome[1].outcome.data \in
            {BadSentimentAnswer, BadUrgencyAnswer, BadConfidenceAnswer,
             NullEntitiesAnswer}

\* C3: when the LLM step raises (call failure or an answer that does not
\* validate), no error reaches the caller and the ticket returned is the
\* fallback ticket built from the signals gathered in step 1.
C3_LLMFailureFallsBack ==
    LLMStepRaised =>
        /\ raised = None
        /\ pc \in {"fallback", "done"}
        /\ pc = "done" =>
             /\ path = "fallback"
             /\ returned = Some(create_fallback_ticket(email_text, entities,
                                product_mentions, sentiment_result,
                                urgency_result))
             /\ returned[1].sentiment = sentiment_result.sentiment
             /\ returned[1].urgency = urgency_result.urgency
             /\ returned[1].entities = entities

\* the LLM answer failed validation and the fallback ticket was returned
C3_Witness ==
    /\ pc = "done"
    /\ LLMStepRaised
    /\ llm_outcome[1].outcome.kind = "output"
    /\ path = "fallback"

\* C4: on both paths the returned confidence_score is the mean of the
\* sentiment and urgency confidences of step 1.
C4_ConfidenceIsMean ==
    pc = "done" =>
        2 * returned[1].confidence_score =
            sentiment_result.confidence + urgency_result.confidence

\* the LLM path returned, and the score the LLM proposed was a different one
C4_Witness ==
    /\ pc = "done"
    /\ path = "llm"
    /\ llm_outcome[1].outcome.data.confidence_score # returned[1].confidence_score

\* process_email ended by returning the fallback ticket
FallbackReturned == pc = "done" /\ path = "fallback"

\* positions of the entities labelled PERSON or ORG
CustomerHits == {i \in 1..Len(entities) : entities[i].label \in {"PERSON", "ORG"}}

\* C11: on the fallback path customer_id is "C_" plus the upper-cased text,
\* spaces turned into underscores, of the first PERSON or ORG entity in
\* extraction order, and "UNKNOWN" when there is none.
C11_CustomerIdFromFirstPersonOrOrg ==
    FallbackReturned =>
        LET id == returned[1].customer_id
        IN  /\ CustomerHits = {} => id = <<"U","N","K","N","O","W","N">>
            /\ CustomerHits # {} =>
                 LET first == CHOOSE i \in CustomerHits :
                                  \A j \in CustomerHits : i <= j
                     name == entities[first].text
                 IN  /\ Len(id) = Len(name) + 2
                     /\ SubSeq(id, 1, 2) = <<"C","_">>
                     /\ \A k \in 1..Len(name) :
                          /\ name[k] = " " => id[k + 2] = "_"
                          /\ name[k] # " " => LowerChar(id[k + 2]) = LowerChar(name[k])
                          /\ id[k + 2] \notin Range(LowerChars)
                     /\ name = <<"j","o","h","n"," ","s","m","i","t","h">> => id = <<"C","_","J","O","H","N","_","S","M","I","T","H">>
                     /\ name = <<"A","c","m","e"," ","C","o","r","p">> => id = <<"C","_","A","C","M","E","_","C","O","R","P">>

\* a DATE entity came first, then a PERSON, then an ORG, and the PERSON won
C11_Witness ==
    /\ FallbackReturned
    /\ Len(entities) = 3
    /\ entities[1].label = "DATE"
    /\ entities[2].label = "PERSON"
    /\ entities[3].label = "ORG"
    /\ returned[1].customer_id = <<"C","_","J","O","H","N","_","S","M","I","T","H">>

\* C12: on the fallback path product is the first product mention, or
\* "General Support" when there is none; with no entity and no mention the
\* ticket has customer_id "UNKNOWN" and product "General Support".
C12_ProductFromFirstMention ==
    FallbackReturned =>
        /\ Len(product_mentions) >= 1 => returned[1].product = product_mentions[1]
        /\ Len(product_mentions) = 0 => returned[1].product = <<"G","e","n","e","r","a","l"," ","S","u","p","p","o","r","t">>
        /\ (Len(entities) = 0 /\ Len(product_mentions) = 0) =>
             /\ returned[1].customer_id = <<"U","N","K","N","O","W","N">>
             /\ returned[1].product = <<"G","e","n","e","r","a","l"," ","S","u","p","p","o","r","t">>

\* several different mentions, and the first one is the product
C12_Witness ==
    /\ FallbackReturned
    /\ Len(product_mentions) >= 2
    /\ product_mentions[1] # product_mentions[Len(product_mentions)]
    /\ returned[1].product = product_mentions[1]

\* C13: on the fallback path a text of at most 100 characters is the summary
\* unchanged, and a longer text gives its first 100 characters followed by
\* "..."; lengths 100 and 101 fall on the respective sides.
C13_SummaryBoundary ==
    FallbackReturned =>
        LET summary == returned[1].summary
        IN  /\ Len(email_text) <= 100 => summary = email_text
            /\ Len(email_text) > 100 =>
                 /\ Len(summary) = 103
                 /\ \A k \in 1..100 : summary[k] = email_text[k]
                 /\ \A k \in 101..103 : summary[k] = "."

\* a text of 101 characters was cut to 100 and marked with the ellipsis
C13_Witness ==
    /\ FallbackReturned
    /\ Len(email_text) = 101
    /\ Len(returned[1].summary) = 103

\* C17: when entity extraction or sentiment analysis raises while the
\* signals are gathered, the exception leaves process_email: the LLM step
\* and the fallback are not run and no ticket is produced.
C17_GatherErrorPropagates ==
    gather_error # None =>
        /\ pc = "raised"
        /\ raised = gather_error
        /\ llm_outcome = None
        /\ path = "none"
        /\ returned = None

\* the sentiment model failed after the entities had been extracted
C17_Witness ==
    /\ gather_error = Some("analyze_sentiment")
    /\ pc = "raised"

\* the signals of step 1, as the later steps read them
Signals1 == <<entities, product_mentions, sentiment_result, urgency_result>>

\* what holds of the phases in every state: urgency after sentiment and from
\* its label, the LLM step after all four signals, the fallback after a
\* failed LLM step, a ticket only at the end
PhasesInOrder ==
    /\ urgency_result # UnsetUrgency =>
         /\ sentiment_result # UnsetSentiment
         /\ urgency_result = classify_urgency(email_text, sentiment_result.sentiment)
    /\ sentiment_result # UnsetSentiment =>
         pc \notin {"extract_entities", "extract_product_mentions",
                    "analyze_sentiment"}
    /\ llm_outcome # None =>
         /\ entities = extract_entities(doc)
         /\ product_mentions \in extract_product_mentions(doc)
         /\ sentiment_result # UnsetSentiment
         /\ urgency_result # UnsetUrgency
    /\ pc = "fallback" => llm_outcome # None /\ llm_outcome[1].failed
    /\ path = "fallback" => llm_outcome # None /\ llm_outcome[1].failed
    /\ path = "llm" => llm_outcome # None /\ ~llm_outcome[1].failed
    /\ returned # None => pc = "done" /\ path \in {"llm", "fallback"}

\* C22 (as stated): the phases occur in order and every execution ends with
\* exactly one ticket emitted.
C22_PhasesInOrderOneTicketAlways ==
    /\ PhasesInOrder
    /\ pc \in {"done", "raised"} => returned # None

\* C22 (amended): sentiment is analysed before urgency is classified from its
\* label; the LLM step starts after all signals are gathered and runs at most
\* once; the fallback ticket is built only after the LLM step failed, from
\* the unchanged step-1 signals; an execution whose gathering completes
\* emits exactly one ticket, one whose gathering raises emits none.
C22_PhasesInOrder ==
    /\ [](/\ PhasesInOrder
          /\ pc = "done" => returned # None
          /\ pc = "raised" =>
               /\ returned = None
               /\ llm_outcome = None
               /\ raised # None
               /\ raised[1] \in GatherSteps)
    /\ [][/\ LLMSynthesis => (llm_outcome = None /\ llm_outcome' # None)
          /\ llm_outcome # None => llm_outcome' = llm_outcome
          /\ Fallback => (/\ llm_outcome # None
                          /\ llm_outcome[1].failed
                          /\ Signals1' = Signals1)
          /\ pc \in {"llm_synthesis", "fallback"} => Signals1' = Signals1
          /\ returned # None => returned' = returned]_vars

\* the LLM step failed once and the fallback ticket was emitted for a text
\* whose urgency came from the negative sentiment
C22_Witness ==
    /\ pc = "done"
    /\ path = "fallback"
    /\ llm_outcome # None
    /\ llm_outcome[1].failed
    /\ sentiment_result.sentiment = "negative"
    /\ urgency_result = classify_urgency(email_text, "negative")
    /\ urgency_result # classify_urgency(email_text, "neutral")
    /\ returned # None

(***************************************************************************)
(* Properties of process_email_batch  (SpecBatch)                          *)
(***************************************************************************)
\* tasks that hold a slot of the semaphore
Holders == {i \in Tasks : task_pc[i] \in {"running", "woken"}}

\* C5: at most 5 process_email invocations are in flight; a task waits only
\* while all 5 slots are taken, and leaves the wait only when a running task
\* releases its slot.
C5_AtMostFiveInFlight ==
    /\ [](/\ Cardinality(InFlight) <= 5
          /\ \A i \in Tasks : task_pc[i] = "waiting" =>
                 Cardinality(Holders) = 5 /\ semaphore = 0)
    /\ [][\A i \in DOMAIN task_pc :
            (task_pc[i] = "waiting" /\ task_pc'[i] # "waiting") =>
                \E j \in DOMAIN task_pc :
                    task_pc[j] = "running" /\ task_pc'[j] = "done"]_vars

\* five invocations in flight and a sixth one waiting
C5_Witness ==
    /\ Cardinality(InFlight) = 5
    /\ waiters # <<>>

Raisers == {i \in Tasks : call_outcome[i].kind = "raised"}
Returners == {i \in Tasks : call_outcome[i].kind = "returned"}

\* the number of emails up to position i whose call returned
ReturnedUpTo(i) == Cardinality({j \in Returners : j <= i})

\* C6: a raising process_email gives a None entry that is left out of the
\* returned list; the batch does not abort, every other email is processed
\* and its ticket is in the returned list.
C6_FailureIsPerItem ==
    /\ ~batch_raised
    /\ gathered # None =>
         /\ batch_return # None
         /\ Tasks = Raisers \cup Returners
         /\ \A i \in Raisers : gathered[1][i] = None
         /\ \A i \in Returners : gathered[1][i] = call_outcome[i].ticket
         /\ Len(batch_return[1]) = Cardinality(Returners)
         /\ \A i \in Returners :
                batch_return[1][ReturnedUpTo(i)] = call_outcome[i].ticket[1]

\* the batch ended, the first call had raised and a later one had returned
C6_Witness ==
    /\ gathered # None
    /\ 1 \in Raisers
    /\ 2 \in Returners
    /\ Len(batch_return[1]) >= 1

\* a constrained field of the Ticket arguments is out of its domain
OutsideDomain(fields) ==
    \/ fields.sentiment \notin {"positive", "neutral", "negative"}
    \/ fields.urgency \notin {"low", "medium", "high"}
    \/ fields.confidence_score < 0
    \/ fields.confidence_score > 1000

\* the tasks whose Ticket call was refused
Rejected == {i \in Tasks : call_outcome[i].error = "ValidationError"}

\* C20: a Ticket call with sentiment, urgency or confidence_score out of its
\* domain raises a validation error and produces no Ticket; in a batch the
\* item concerned gets no ticket, the batch goes on and every other item
\* keeps its ticket.
C20_InvalidTicketRejected ==
    /\ \A fields \in TicketCandidates :
         OutsideDomain(fields) => Ticket(fields) = None
    /\ \A i \in Tasks :
         /\ (task_pc[i] = "done" /\ OutsideDomain(BatchCandidate(i))) =>
               /\ call_outcome[i].ticket # Some(BatchCandidate(i))
               /\ task_result[i] # Some(BatchCandidate(i))
         /\ i \in Rejected =>
               /\ OutsideDomain(BatchCandidate(i))
               /\ call_outcome[i].ticket = None
               /\ task_result[i] = None
         /\ call_outcome[i].ticket # None =>
               ~OutsideDomain(call_outcome[i].ticket[1])
    /\ ~batch_raised
    /\ (\A i \in Tasks : task_pc[i] = "done") =>
         (ENABLED GatherReturns \/ gathered # None)
    /\ gathered # None =>
         /\ \A i \in Rejected : gathered[1][i] = None
         /\ \A i \in Tasks \ Rejected :
               /\ gathered[1][i] = call_outcome[i].ticket
               /\ gathered[1][i] # None =>
                     \E k \in 1..Len(batch_return[1]) :
                        batch_return[1][k] = gathered[1][i][1]
         /\ \A k \in 1..Len(batch_return[1]) : ~OutsideDomain(batch_return[1][k])

\* the batch ended: the Ticket call of the first item was refused for its
\* sentiment, the fifth item's was accepted and its ticket returned
C20_Witness ==
    /\ Len(emails) >= 5
    /\ gathered # None
    /\ 1 \in Rejected
    /\ 3 \in Rejected
    /\ call_outcome[5].ticket = Some(BatchCandidate(5))
    /\ \E k \in 1..Len(batch_return[1]) : batch_return[1][k] = BatchCandidate(5)

\* C21: a Ticket call with an empty customer_id is refused by validation,
\* so no item of a batch ends with a ticket whose customer_id is empty.
C21_EmptyCustomerIdRejected ==
    \A i \in Tasks :
        (task_pc[i] = "done" /\ BatchCandidate(i).customer_id = <<>>) =>
            /\ call_outcome[i].ticket # Some(BatchCandidate(i))
            /\ task_result[i] # Some(BatchCandidate(i))

\* tasks whose process_single has ended
Done == {i \in Tasks : task_pc[i] = "done"}

\* C27: with process_email calls that terminate the batch terminates: every
\* email gets a slot and is processed exactly once, every slot taken is
\* given back whether the call returned or raised, and the progress counter
\* is advanced once per email and ends at the number of emails.
C27_BatchTerminates ==
    /\ <>(gathered # None)
    /\ [](/\ semaphore + Cardinality(Holders) = ConcurrencyLimit
          /\ progress = Cardinality(Done)
          /\ \A i \in Tasks : (call_outcome[i].kind # "none") = (i \in Done)
          /\ gathered # None =>
               /\ Done = Tasks
               /\ semaphore = ConcurrencyLimit
               /\ waiters = <<>>
               /\ progress = Len(emails))
    /\ [][\A i \in Done :
            /\ task_pc'[i] = "done"
            /\ call_outcome'[i] = call_outcome[i]]_vars

\* a batch of more emails than slots ended, some calls having raised
C27_Witness ==
    /\ gathered # None
    /\ Len(emails) > ConcurrencyLimit
    /\ progress = Len(emails)
    /\ semaphore = ConcurrencyLimit
    /\ Raisers # {}
    /\ Returners # {}

\* the email whose call returned this ticket
EmailOf(ticket) == {i \in Returners : call_outcome[i].ticket = Some(ticket)}

\* C28: the returned list holds the tickets of the emails whose processing
\* did not raise, in the order of the input emails whatever the order in
\* which the calls ended, and is as long as the number of those emails.
C28_ReturnedInInputOrder ==
    gathered # None =>
        LET tickets == batch_return[1]
        IN  /\ Len(tickets) = Cardinality(Tasks \ Raisers)
            /\ \A k \in 1..Len(tickets) : Cardinality(EmailOf(tickets[k])) = 1
            /\ \A i \in Tasks \ Raisers :
                 \E k \in 1..Len(tickets) : i \in EmailOf(tickets[k])
            /\ \A k, l \in 1..Len(tickets) :
                 k < l => \A i \in EmailOf(tickets[k]), j \in EmailOf(tickets[l]) :
                             i < j

\* calls ended out of input order, one raised between two that returned
C28_Witness ==
    /\ gathered # None
    /\ out_of_order
    /\ Len(batch_return[1]) >= 2
    /\ \E i, j, k \in Tasks :
         /\ i < j /\ j < k
         /\ i \in Returners /\ j \in Raisers /\ k \in Returners

(***************************************************************************)
(* Properties of classify_urgency  (SpecUrgency)                           *)
(***************************************************************************)
\* number of high / medium keywords found in the lower-cased text
HighMatches(text) == KeywordScore(high_urgency_keywords, Lower(text))
MediumMatches(text) == KeywordScore(medium_urgency_keywords, Lower(text))

\* C7: high_score is the keyword count plus 2 for negative, minus 1 for
\* positive sentiment; high_score >= 3 gives high with min(0.9, 0.5 + 0.1 h);
\* else high_score >= 1 or medium_score >= 2 gives medium with
\* min(0.8, 0.4 + 0.1 (h + m)); else low with 0.6.
C7_DecisionRules ==
    cu_result # None =>
        LET h == HighMatches(cu_text)
                   + (CASE cu_sentiment = "negative" -> 2
                        [] cu_sentiment = "positive" -> 0 - 1
                        [] OTHER -> 0)
            m == MediumMatches(cu_text)
            r == cu_result[1]
        IN  /\ r.keyword_matches = [high |-> h, medium |-> m]
            /\ h >= 3 =>
                 /\ r.urgency = "high"
                 /\ r.confidence = (IF 500 + 100 * h < 900 THEN 500 + 100 * h ELSE 900)
            /\ (h < 3 /\ (h >= 1 \/ m >= 2)) =>
                 /\ r.urgency = "medium"
                 /\ r.confidence =
                      (IF 400 + 100 * (h + m) < 800 THEN 400 + 100 * (h + m) ELSE 800)
            /\ (h < 1 /\ m < 2) =>
                 /\ r.urgency = "low"
                 /\ r.confidence = 600

\* positive sentiment took a point off and the medium rule still matched
C7_Witness ==
    /\ cu_result # None
    /\ cu_sentiment = "positive"
    /\ HighMatches(cu_text) = 0
    /\ cu_result[1].keyword_matches.high = 0 - 1
    /\ cu_result[1].urgency = "medium"

\* C8: urgency is one of low, medium, high and confidence lies in [0, 0.9]:
\* at most 0.9 for high, at most 0.8 for medium, exactly 0.6 for low.
C8_UrgencyAndConfidenceRange ==
    cu_result # None =>
        /\ cu_result[1].urgency \in {"low", "medium", "high"}
        /\ cu_result[1].confidence >= 0
        /\ cu_result[1].confidence <= 900
        /\ cu_result[1].urgency = "medium" => cu_result[1].confidence <= 800
        /\ cu_result[1].urgency = "low" => cu_result[1].confidence = 600

\* a high result whose uncapped confidence would exceed 0.9
C8_Witness ==
    /\ cu_result # None
    /\ cu_result[1].urgency = "high"
    /\ 500 + 100 * cu_result[1].keyword_matches.high > 900
    /\ cu_result[1].confidence = 900

QuickQuestionClassified ==
    /\ cu_text = QuickQuestionText
    /\ cu_sentiment = "neutral"
    /\ cu_result # None

\* C9 (as stated): the quick-question text with neutral sentiment has a
\* medium keyword match and is classified medium.
C9_QuickQuestionIsMedium ==
    QuickQuestionClassified =>
        /\ cu_result[1].keyword_matches.medium >= 1
        /\ cu_result[1].urgency = "medium"

\* C9 (amended): the quick-question text with neutral sentiment has exactly
\* one medium keyword match and no high one, which is below the medium
\* threshold, and is classified low with confidence 0.6.
C9_QuickQuestionIsLow ==
    QuickQuestionClassified =>
        /\ IsSubstring(<<"q","u","e","s","t","i","o","n">>, Lower(cu_text))
        /\ cu_result[1].keyword_matches = [high |-> 0, medium |-> 1]
        /\ cu_result[1].urgency = "low"
        /\ cu_result[1].confidence = 600

C9_Witness == QuickQuestionClassified

EmptyClassified ==
    /\ cu_text = <<>>
    /\ cu_result # None

\* C10 (as stated): the empty string has both keyword counts zero and is
\* classified low, for every sentiment.
C10_EmptyIsLow ==
    EmptyClassified =>
        /\ HighMatches(cu_text) = 0
        /\ MediumMatches(cu_text) = 0
        /\ cu_result[1].urgency = "low"

\* C10 (amended): classify_urgency yields a result for every text and
\* sentiment; the empty string matches no keyword, and it is classified low
\* when the sentiment is neutral or positive and medium (high_score 2) when
\* the sentiment is negative.
C10_EmptyFollowsSentiment ==
    /\ cu_result = None => ENABLED CuClassify
    /\ EmptyClassified =>
         /\ HighMatches(cu_text) = 0
         /\ cu_result[1].keyword_matches.medium = 0
         /\ cu_sentiment \in {"neutral", "positive"} =>
              cu_result[1].urgency = "low"
         /\ cu_sentiment = "negative" =>
              /\ cu_result[1].keyword_matches.high = 2
              /\ cu_result[1].urgency = "medium"

\* the empty string classified under negative sentiment
C10_Witness ==
    /\ EmptyClassified
    /\ cu_sentiment = "negative"

(***************************************************************************)
(* Properties of the command line tool and the demo ticket  (SpecCli)      *)
(***************************************************************************)
\* demo mode ended with a ticket
DemoTicketMade == cli_demo /\ cli_pc = "done"

MentionsBilling(text) ==
    \/ IsSubstring(<<"b","i","l","l","i","n","g">>, Lower(text))
    \/ IsSubstring(<<"p","a","y","m","e","n","t">>, Lower(text))

\* C14: create_demo_ticket sets next_action by ordered rules: urgency high
\* escalates; else negative sentiment goes to senior support; else a text
\* with "billing" or "payment" (any case) goes to billing; else support.
C14_DemoNextActionRules ==
    DemoTicketMade =>
        LET urgency   == cli_signals.urgency_result.urgency
            sentiment == cli_signals.sentiment_result.sentiment
            action    == cli_ticket[1].next_action
        IN  /\ urgency = "high" => action = "escalate_to_tier_2"
            /\ (urgency # "high" /\ sentiment = "negative") =>
                 action = "assign_to_senior_support"
            /\ (urgency # "high" /\ sentiment # "negative"
                  /\ MentionsBilling(cli_email_text)) =>
                 action = "assign_to_billing"
            /\ (urgency # "high" /\ sentiment # "negative"
                  /\ ~MentionsBilling(cli_email_text)) =>
                 action = "assign_to_support"

\* a high-urgency billing email was escalated
C14_Witness ==
    /\ DemoTicketMade
    /\ cli_signals.urgency_result.urgency = "high"
    /\ MentionsBilling(cli_email_text)
    /\ cli_ticket[1].next_action = "escalate_to_tier_2"

\* the ticket the fallback path of process_email builds from the same email
\* and the same signals
CliFallbackTicket ==
    create_fallback_ticket(cli_email_text, cli_signals.entities,
        cli_signals.product_mentions, cli_signals.sentiment_result,
        cli_signals.urgency_result)

\* C15 (as stated): in demo mode no TriageAgent is constructed, no LLM call
\* is made, and the ticket is the fallback ticket of process_email.
C15_DemoTicketIsFallbackTicket ==
    /\ cli_demo => (~cli_agent /\ cli_llm_calls = 0)
    /\ DemoTicketMade => cli_ticket[1] = CliFallbackTicket

\* C15 (amended): in demo mode no TriageAgent is constructed and no LLM call
\* is made; the ticket agrees with the fallback ticket in every field but
\* next_action, and next_action differs from the fallback's exactly when
\* urgency is not high and the sentiment is negative or the text mentions
\* billing or payment.
C15_DemoTicketIsFallbackButNextAction ==
    /\ cli_demo => (~cli_agent /\ cli_llm_calls = 0)
    /\ DemoTicketMade =>
         LET t == cli_ticket[1]
             b == CliFallbackTicket
         IN  /\ t.customer_id = b.customer_id
             /\ t.product = b.product
             /\ t.sentiment = b.sentiment
             /\ t.urgency = b.urgency
             /\ t.entities = b.entities
             /\ t.summary = b.summary
             /\ t.confidence_score = b.confidence_score
             /\ t.next_action # b.next_action <=>
                  /\ t.urgency # "high"
                  /\ \/ t.sentiment = "negative"
                     \/ MentionsBilling(cli_email_text)

\* a demo ticket sent to senior support, where the fallback says support
C15_Witness ==
    /\ DemoTicketMade
    /\ cli_ticket[1].next_action = "assign_to_senior_support"
    /\ CliFallbackTicket.next_action = "assign_to_support"

(***************************************************************************)
(* Properties of the HTTP service  (SpecApi)                               *)
(***************************************************************************)
\* the request in api_request has been answered
Answered(kind) ==
    /\ api_pc = "idle"
    /\ api_request.kind = kind
    /\ api_response # None

ErrorPrefix == <<"E","r","r","o","r"," ","p","r","o","c","e","s","s","i","n","g"," ",
          "e","m","a","i","l",":"," ">>

\* C18: POST /triage answers with the ticket when process_email returns one
\* and with a 500 error carrying a message string when process_email raises;
\* GET /health answers status "healthy", version "0.1.0" whatever the state
\* of the agent.
C18_TriageAndHealthResponses ==
    /\ (Answered("triage") /\ api_call.kind = "returned") =>
         /\ api_response[1].code = 200
         /\ api_response[1].ticket = api_call.ticket
         /\ api_response[1].ticket # None
         /\ api_response[1].detail = None
    /\ (Answered("triage") /\ api_call.kind = "raised") =>
         /\ api_response[1].code = 500
         /\ api_response[1].ticket = None
         /\ api_response[1].detail # None
         /\ Len(api_response[1].detail[1]) > Len(ErrorPrefix)
         /\ SubSeq(api_response[1].detail[1], 1, Len(ErrorPrefix)) = ErrorPrefix
    /\ Answered("triage") => api_call.kind \in {"returned", "raised"}
    /\ Answered("health") =>
         /\ api_response[1].code = 200
         /\ api_response[1].health =
              Some([status |-> "healthy", version |-> "0.1.0"])

\* a triage request failed with 500 and a message
C18_Witness ==
    /\ Answered("triage")
    /\ api_call.kind = "raised"
    /\ api_response[1].code = 500
    /\ ~api_agent_ok

(***************************************************************************)
(* Properties of load_emails_from_file  (SpecLoad)                         *)
(***************************************************************************)
HasBlankLine(content) == Find(content, <<"\n", "\n">>) # 0

RECURSIVE Concat(_)
Concat(seq) == IF seq = <<>> THEN <<>> ELSE Head(seq) \o Concat(Tail(seq))

\* the characters of s that are not whitespace, in order
NonSpace(s) == LET Test(c) == ~IsSpace(c) IN SelectSeq(s, Test)

\* C19: the file is split on blank lines, or on newlines when it has no blank
\* line; every returned email is non-empty and has no whitespace at either
\* end; nothing but whitespace is lost; a missing file gives the empty list.
C19_LoadedEmailsClean ==
    load_pc = "done" =>
        /\ file_kind = "missing" => loaded = Some(<<>>)
        /\ file_kind = "file" =>
            /\ loaded # None
            /\ ~load_raised
            /\ \A i \in 1..Len(loaded[1]) :
                 LET email == loaded[1][i]
                 IN  /\ email # <<>>
                     /\ ~IsSpace(email[1])
                     /\ ~IsSpace(email[Len(email)])
                     /\ Find(email, <<"\n", "\n">>) = 0
                     /\ ~HasBlankLine(file_content) => Find(email, <<"\n">>) = 0
            /\ NonSpace(Concat(loaded[1])) = NonSpace(file_content)
            /\ (loaded[1] = <<>>) = (NonSpace(file_content) = <<>>)

\* a file with a blank line gave two emails, one of them of two lines
C19_Witness ==
    /\ load_pc = "done"
    /\ file_kind = "file"
    /\ HasBlankLine(file_content)
    /\ Len(loaded[1]) = 2
    /\ \E i \in 1..2 : Find(loaded[1][i], <<"\n">>) # 0

(***************************************************************************)
(* Further properties of the fallback ticket  (Spec)                       *)
(***************************************************************************)
\* C24: the fallback ticket's next_action is "escalate_to_tier_2" when the
\* urgency is high and "assign_to_support" otherwise, whatever the sentiment
\* and whether or not the text names billing or payment.
C24_FallbackNextActionTwoRules ==
    FallbackReturned =>
        /\ urgency_result.urgency = "high" =>
             returned[1].next_action = "escalate_to_tier_2"
        /\ urgency_result.urgency # "high" =>
             returned[1].next_action = "assign_to_support"
        /\ returned[1].next_action \in {"escalate_to_tier_2", "assign_to_support"}

\* a payment email with negative sentiment and medium urgency went to support
C24_Witness ==
    /\ FallbackReturned
    /\ MentionsBilling(email_text)
    /\ sentiment_result.sentiment = "negative"
    /\ urgency_result.urgency = "medium"
    /\ returned[1].next_action = "assign_to_support"

\* C25: on the fallback path the ticket's sentiment, urgency and entities
\* are the step-1 values: the same labels and the same entities in the same
\* order, none added, dropped or altered.
C25_FallbackPassesSignalsThrough ==
    FallbackReturned =>
        /\ returned[1].sentiment = sentiment_result.sentiment
        /\ returned[1].urgency = urgency_result.urgency
        /\ Len(returned[1].entities) = Len(entities)
        /\ \A i \in 1..Len(entities) : returned[1].entities[i] = entities[i]
        /\ entities = extract_entities(doc)

\* a fallback ticket that carries three entities, a date among them
C25_Witness ==
    /\ FallbackReturned
    /\ Len(entities) = 3
    /\ \E i \in 1..3 : entities[i].label = "DATE"
    /\ returned[1].entities = entities
    /\ returned[1].sentiment = "positive"

(***************************************************************************)
(* Further properties of classify_urgency  (SpecUrgency)                   *)
(***************************************************************************)
\* where term starts in text, compared without regard to case
OccurrencesOf(term, text) ==
    {p \in 0..(Len(text) - Len(term)) :
        \A j \in 1..Len(term) : LowerChar(text[p + j]) = LowerChar(term[j])}

RECURSIVE TotalOccurrences(_, _)
\* occurrences of all the terms of a list, each occurrence counted
TotalOccurrences(terms, text) ==
    IF terms = <<>> THEN 0
    ELSE Cardinality(OccurrencesOf(Head(terms), text))
         + TotalOccurrences(Tail(terms), text)

\* the terms of a list that occur in text at least once
TermsPresent(terms, text) ==
    {i \in 1..Len(terms) : OccurrencesOf(terms[i], text) # {}}

\* what the sentiment adds to high_score
SentimentAdjustment(sentiment) ==
    CASE sentiment = "negative" -> 2
      [] sentiment = "positive" -> 0 - 1
      [] OTHER -> 0

\* C23 (as stated): before the sentiment adjustment high_score and
\* medium_score are the numbers of occurrences of the terms, a term that
\* occurs k times adding k.
C23_ScoresCountOccurrences ==
    cu_result # None =>
        /\ cu_result[1].keyword_matches.high - SentimentAdjustment(cu_sentiment)
             = TotalOccurrences(high_urgency_keywords, cu_text)
        /\ cu_result[1].keyword_matches.medium
             = TotalOccurrences(medium_urgency_keywords, cu_text)

\* C23 (amended): before the sentiment adjustment high_score and medium_score
\* are the numbers of terms of the set that occur in the text at least once,
\* case ignored; a term adds 1 however often it occurs.
C23_ScoresCountTermsPresent ==
    cu_result # None =>
        /\ cu_result[1].keyword_matches.high - SentimentAdjustment(cu_sentiment)
             = Cardinality(TermsPresent(high_urgency_keywords, cu_text))
        /\ cu_result[1].keyword_matches.medium
             = Cardinality(TermsPresent(medium_urgency_keywords, cu_text))

\* a text in which "urgent" occurs twice was classified with high_score 1
C23_Witness ==
    /\ cu_result # None
    /\ cu_sentiment = "neutral"
    /\ Cardinality(OccurrencesOf(<<"u","r","g","e","n","t">>, cu_text)) = 2
    /\ cu_result[1].keyword_matches.high = 1

\* the orders positive < neutral < negative and low < medium < high
SentimentRank(s) == CASE s = "positive" -> 1 [] s = "neutral" -> 2 [] OTHER -> 3
UrgencyRank(u) == CASE u = "low" -> 1 [] u = "medium" -> 2 [] OTHER -> 3

\* C29: for a fixed text the urgency is monotone in the sentiment: positive
\* gives at most what neutral gives, neutral at most what negative gives;
\* negative sentiment never gives low.
C29_UrgencyMonotoneInSentiment ==
    cu_result # None =>
        /\ \A other \in Sentiments :
             SentimentRank(cu_sentiment) <= SentimentRank(other) =>
                UrgencyRank(cu_result[1].urgency)
                    <= UrgencyRank(classify_urgency(cu_text, other).urgency)
        /\ cu_sentiment = "negative" => cu_result[1].urgency # "low"

\* a text that is low when positive, medium when neutral, high when negative
C29_Witness ==
    /\ cu_result # None
    /\ cu_sentiment = "neutral"
    /\ cu_result[1].urgency = "medium"
    /\ classify_urgency(cu_text, "positive").urgency = "low"
    /\ classify_urgency(cu_text, "negative").urgency = "high"

(***************************************************************************)
(* Further properties of the signal gathering  (Spec)                      *)
(***************************************************************************)
\* C26: the product mentions are returned without duplicates and in the
\* order in which they first appear in the text, so the first element is
\* the earliest mention.
C26_MentionsInOrderOfAppearance ==
    \A i, j \in 1..Len(product_mentions) :
        i < j =>
            /\ product_mentions[i] # product_mentions[j]
            /\ Find(email_text, product_mentions[i])
                 < Find(email_text, product_mentions[j])

(***************************************************************************)
(* Properties of the development setup script  (SpecSetup)                 *)
(***************************************************************************)
\* C30: when both verification commands exit with status 0, verify_setup
\* returns True and main ends with the success message and not with
\* sys.exit(1), whether or not the commands wrote anything on standard
\* output.
C30_VerifiedWhenCommandsExitZero ==
    (/\ ds_verified # None
     /\ ds_verify_env.build.status = 0
     /\ ds_verify_env.imports.status = 0) =>
        /\ ds_verified = Some(TRUE)
        /\ ds_pc = "done"
        /\ ds_exit = Some(0)

====
